---- MODULE Spec2Model ----
(***************************************************************************)
(* A model of the transcript store (src/lib/transcript-manager.ts) and of  *)
(* the translation orchestrator (src/lib/translation-service.ts) with the  *)
(* translation hook's in-flight table (src/hooks/useTranslation.ts), and   *)
(* of the language detector (src/lib/language-detector.ts) with the        *)
(* detection hook's debounce (src/unnamed/part_001), of the audio manager  *)
(* (src/lib/audio-manager.ts) and of the speech recognition manager        *)
(* (src/lib/speech-recognition.ts).                                        *)
(*                                                                         *)
(* Encodings.  A segment id is a sequence of string tokens standing for    *)
(* the tokens joined by "-": <<"a">> is "a", <<"merged", "3">> is          *)
(* "merged-3", Append(id, "1") is `${id}-1`.  A content is a sequence of   *)
(* one-character strings.  A timestamp is a number of milliseconds.        *)
(***************************************************************************)
EXTENDS Integers, Sequences, FiniteSets, TLC

VARIABLES
    transcripts,    \* TranscriptManager.transcripts
    undoStack,      \* TranscriptManager.undoStack (last element = top)
    redoStack,      \* TranscriptManager.redoStack (last element = top)
    clock,          \* the value Date.now() last returned
    lastCall,       \* the store call made last, what it returned, the call before
    edits,          \* how many mutators have succeeded so far
    firstEdit,      \* <<c>> once the first mutator has run, c the collection it left
    preMutation,    \* the collections before the mutators made or redone, not undone
    lastQuery,      \* the search or export call made last and what it returned
    cache,          \* TranslationManager.cache, entries in insertion order
    preferredEngine,\* TranslationManager.preferredEngine, "none" for null
    requestQueue,   \* the hook's requestQueueRef: request key -> pending call
    execs,          \* the calls of TranslationManager.translate, one per slot
    batch,          \* the call of TranslationManager.translateBatch
    lastSuccess,    \* the engine whose translate last returned a result
    adopted,        \* the engine a priority-order probe last found available
    isTranslating,  \* the hook's isTranslating state
    languageHistory,\* LanguageDetector.languageHistory
    appended,       \* the records pushed on the history since it was last cleared
    detCalls,       \* how many detectLanguage calls have been made: the time
    lastDetection,  \* the detectLanguage call made last and what it returned
    autoDetectEnabled,  \* useLanguageDetection: the autoDetectEnabled state
    debounceTimeoutRef, \* debounceTimeoutRef.current: a timer id, 0 for null
    timers,         \* the timeouts set and neither fired nor cleared yet
    timerCount,     \* how many timeouts have been set: the last timer id
    mounted,        \* whether the component using the hook is mounted
    lastHook,       \* the hook step taken last, the text of the last debounced call
    mediaRecorder,  \* AudioManager.mediaRecorder, <<>> for null
    audioContext,   \* AudioManager.audioContext, FALSE for null
    analyser,       \* AudioManager.analyser, FALSE for null
    stream,         \* AudioManager.stream, FALSE for null
    isRecording,    \* AudioManager.isRecording
    recordedChunks, \* AudioManager.recordedChunks, the sizes of the blobs
    isTestMode,     \* AudioManager.isTestMode
    testInterval,   \* AudioManager.testInterval, FALSE for null
    initializing,   \* the calls of initialize waiting for getUserMedia
    lastAudio,      \* the AudioManager call finished last and what it gave
    offline,        \* the call of the offline engine made last, character by character
    speechEngine,   \* whether SpeechRecognitionManager.engine is set
    continuous,     \* SpeechRecognitionManager.config.continuous
    isActive,       \* SpeechRecognitionManager.isActive
    isListening,    \* WebSpeechEngine.isListening
    recognition,    \* the state of the platform's recognizer
    restarts,       \* the restart timeouts set and not yet due
    engineStarts,   \* how many times recognition.start() has been called
    lastSpeech      \* the recognition step taken last, isActive before it

storeVars ==
    <<transcripts, undoStack, redoStack, clock, lastCall, edits, firstEdit,
      preMutation, lastQuery>>

transVars ==
    <<cache, preferredEngine, requestQueue, execs, batch, lastSuccess, adopted,
      isTranslating>>

detVars == <<languageHistory, appended, detCalls, lastDetection>>

hookVars ==
    <<autoDetectEnabled, debounceTimeoutRef, timers, timerCount, mounted, lastHook>>

audioVars ==
    <<mediaRecorder, audioContext, analyser, stream, isRecording, recordedChunks,
      isTestMode, testInterval, initializing, lastAudio>>

engineVars == <<offline>>

speechVars ==
    <<speechEngine, continuous, isActive, isListening, recognition, restarts,
      engineStarts, lastSpeech>>

vars ==
    <<storeVars, transVars, detVars, hookVars, audioVars, engineVars, speechVars>>

----------------------------------------------------------------------------
(* Bounds of the model. *)

MaxSegs == 3            \* SpecStore: longest collection an append may build on
MaxStoreEdits == 2      \* SpecStore: successful mutators per run
MaxClock == 1           \* largest value of Date.now()
MaxEdits == 52          \* SpecSession: successful mutators per run

(* Program constants. *)

maxUndoSteps == 50
SplitOffsetMs == 1000

----------------------------------------------------------------------------
(* Segments the callers hand to the store. *)

Seg(i, sp, c, t, lang, conf) ==
    [id |-> i, speakerId |-> sp, content |-> c, timestamp |-> t,
     primaryLanguage |-> lang, confidence |-> conf, isMerged |-> FALSE,
     originalSegmentIds |-> <<>>]

SegA == Seg(<<"a">>, "speaker1", <<"x", " ", "y">>, 2000, "en", 80)
SegB == Seg(<<"b">>, "speaker2", <<"z", " ">>, 1000, "zh", 60)
SegC == Seg(<<"c">>, "speaker1", <<"y">>, 1000, "ms", 40)

SegmentPool == {SegA, SegC}

UpdatePool ==
    { [content |-> <<"y", " ", "z">>],
      [speakerId |-> "speaker2", timestamp |-> 0] }

InitialCollections == { <<>>, <<SegB>>, <<SegA, SegB>> }

Mutators ==
    {"addSegment", "addSegments", "updateSegment", "deleteSegment",
     "mergeSegments", "splitSegment", "clear", "setTranscripts"}

NoCall == [op |-> "none", ok |-> TRUE, prev |-> "none", prevOk |-> TRUE]

NoQuery == [op |-> "none", options |-> <<>>, zone |-> 0, out |-> <<>>]

Called(op, ok) ==
    [op |-> op, ok |-> ok, prev |-> lastCall.op, prevOk |-> lastCall.ok]

----------------------------------------------------------------------------
(* Pure helpers of the store. *)

\* Array.prototype.findIndex(s => s.id === id): the first index, 0 for -1.
FindIndex(ts, id) ==
    IF \E i \in 1..Len(ts) : ts[i].id = id
    THEN CHOOSE i \in 1..Len(ts) :
            /\ ts[i].id = id
            /\ \A j \in 1..(i - 1) : ts[j].id # id
    ELSE 0

\* { ...segment, ...updates }
Spread(segment, updates) ==
    [f \in DOMAIN segment |->
        IF f \in DOMAIN updates THEN updates[f] ELSE segment[f]]

IsSpace(ch) == ch = " "

RECURSIVE TrimStart(_)
TrimStart(c) ==
    IF c # <<>> /\ IsSpace(Head(c)) THEN TrimStart(Tail(c)) ELSE c

RECURSIVE TrimEnd(_)
TrimEnd(c) ==
    IF c # <<>> /\ IsSpace(c[Len(c)])
    THEN TrimEnd(SubSeq(c, 1, Len(c) - 1))
    ELSE c

\* String.prototype.trim
Trim(c) == TrimEnd(TrimStart(c))

\* segments.map(s => s.content).join(' ')
RECURSIVE JoinContents(_)
JoinContents(segs) ==
    IF segs = <<>> THEN <<>>
    ELSE IF Len(segs) = 1 THEN segs[1].content
    ELSE segs[1].content \o <<" ">> \o JoinContents(Tail(segs))

RECURSIVE SumConfidence(_)
SumConfidence(segs) ==
    IF segs = <<>> THEN 0 ELSE segs[1].confidence + SumConfidence(Tail(segs))

\* One step of a stable insertion: s goes after every entry that is not later.
RECURSIVE InsertByTimestamp(_, _)
InsertByTimestamp(sorted, s) ==
    IF sorted = <<>> THEN <<s>>
    ELSE IF sorted[Len(sorted)].timestamp <= s.timestamp
         THEN Append(sorted, s)
         ELSE Append(InsertByTimestamp(SubSeq(sorted, 1, Len(sorted) - 1), s),
                     sorted[Len(sorted)])

\* Array.prototype.sort((a, b) => a.timestamp - b.timestamp), which is stable.
RECURSIVE SortByTimestamp(_)
SortByTimestamp(ts) ==
    IF ts = <<>> THEN <<>>
    ELSE InsertByTimestamp(SortByTimestamp(SubSeq(ts, 1, Len(ts) - 1)), ts[Len(ts)])

\* Array.prototype.filter(s => !segmentIds.includes(s.id))
RECURSIVE WithoutIds(_, _)
WithoutIds(ts, ids) ==
    IF ts = <<>> THEN <<>>
    ELSE IF \E i \in 1..Len(ids) : ids[i] = ts[1].id
         THEN WithoutIds(Tail(ts), ids)
         ELSE <<ts[1]>> \o WithoutIds(Tail(ts), ids)

\* mergeSegments taking the segments as the collection holds them:
\* this.transcripts.filter(s => segmentIds.includes(s.id)).
MergedSegmentCollectionOrder(segs, ids, now) ==
    LET held == SelectSeq(transcripts,
                          LAMBDA s : \E n \in 1..Len(ids) : ids[n] = s.id)
    IN  [id |-> <<"merged", ToString(now)>>,
         speakerId |-> held[1].speakerId,
         content |-> JoinContents(held),
         timestamp |-> held[1].timestamp,
         primaryLanguage |-> held[1].primaryLanguage,
         confidence |-> SumConfidence(held) \div Len(held),
         isMerged |-> TRUE,
         originalSegmentIds |-> ids]

\* The segment built by mergeSegments from the found segments, at time now.
MergedSegment(segs, ids, now) ==
    [id |-> <<"merged", ToString(now)>>,
     speakerId |-> segs[1].speakerId,
     content |-> JoinContents(segs),
     timestamp |-> segs[1].timestamp,
     primaryLanguage |-> segs[1].primaryLanguage,
     confidence |-> SumConfidence(segs) \div Len(segs),
     isMerged |-> TRUE,
     originalSegmentIds |-> ids]

----------------------------------------------------------------------------
(* saveState, undo and redo on the two stacks. *)

\* saveState pushing the array itself, which the mutators then change in place:
\* every snapshot of it reads as the collection reads now.
SavedUndoShared(stack, ts) ==
    LET kept == IF Len(stack) < maxUndoSteps THEN Len(stack) + 1 ELSE maxUndoSteps
    IN  [i \in 1..kept |-> ts]

\* saveState's undo stack: push a copy, drop the oldest beyond maxUndoSteps.
SavedUndoEvictNewest(stack, ts) ==
    IF Len(stack) + 1 > maxUndoSteps THEN stack ELSE Append(stack, ts)

SavedUndoNoPush(stack, ts) == stack

SavedUndo(stack, ts) ==
    LET pushed == Append(stack, ts)
    IN  IF Len(pushed) > maxUndoSteps THEN Tail(pushed) ELSE pushed

\* saveState's redo stack.
SavedRedoKept(stack) == stack

SavedRedo(stack) == <<>>

\* undo() that reads the top of the undo stack and leaves it there.
UndoResultPeek(ts, undo, redo) ==
    IF Len(undo) = 0
    THEN [ok |-> FALSE, transcripts |-> ts, undoStack |-> undo, redoStack |-> redo]
    ELSE [ok |-> TRUE,
          transcripts |-> undo[Len(undo)],
          undoStack |-> undo,
          redoStack |-> Append(redo, ts)]

\* What undo() returns and leaves, from a given state of the store.
UndoResult(ts, undo, redo) ==
    IF Len(undo) = 0
    THEN [ok |-> FALSE, transcripts |-> ts, undoStack |-> undo, redoStack |-> redo]
    ELSE [ok |-> TRUE,
          transcripts |-> undo[Len(undo)],
          undoStack |-> SubSeq(undo, 1, Len(undo) - 1),
          redoStack |-> Append(redo, ts)]

\* redo() that does not push the current collection on the undo stack.
RedoResultNoPush(ts, undo, redo) ==
    IF Len(redo) = 0
    THEN [ok |-> FALSE, transcripts |-> ts, undoStack |-> undo, redoStack |-> redo]
    ELSE [ok |-> TRUE,
          transcripts |-> redo[Len(redo)],
          undoStack |-> undo,
          redoStack |-> SubSeq(redo, 1, Len(redo) - 1)]

\* What redo() returns and leaves, from a given state of the store.
RedoResult(ts, undo, redo) ==
    IF Len(redo) = 0
    THEN [ok |-> FALSE, transcripts |-> ts, undoStack |-> undo, redoStack |-> redo]
    ELSE [ok |-> TRUE,
          transcripts |-> redo[Len(redo)],
          undoStack |-> Append(undo, ts),
          redoStack |-> SubSeq(redo, 1, Len(redo) - 1)]

----------------------------------------------------------------------------
(* The store's operations. *)

\* The collections before the latest mutators, ts the newest, as far back as
\* undo() can reach.
Remembered(before, ts) ==
    LET all == Append(before, ts)
    IN  IF Len(all) > maxUndoSteps THEN Tail(all) ELSE all

\* A mutator that got past its checks: saveState, then the new collection.
Mutate(op, newTranscripts) ==
    /\ undoStack' = SavedUndo(undoStack, transcripts)
    /\ redoStack' = SavedRedo(redoStack)
    /\ transcripts' = newTranscripts
    /\ lastCall' = Called(op, TRUE)
    /\ edits' = edits + 1
    /\ firstEdit' = IF firstEdit = <<>> THEN <<newTranscripts>> ELSE firstEdit
    /\ preMutation' = Remembered(preMutation, transcripts)
    /\ UNCHANGED lastQuery
    /\ UNCHANGED <<transVars, detVars, hookVars, audioVars, engineVars, speechVars>>

\* A call that returns false after saveState.
RejectAfterSave(op) ==
    /\ undoStack' = SavedUndo(undoStack, transcripts)
    /\ redoStack' = SavedRedo(redoStack)
    /\ lastCall' = Called(op, FALSE)
    /\ UNCHANGED <<transcripts, edits, firstEdit, preMutation, lastQuery>>
    /\ UNCHANGED <<transVars, detVars, hookVars, audioVars, engineVars, speechVars>>

\* A call that returns false before saveState.
Reject(op) ==
    /\ lastCall' = Called(op, FALSE)
    /\ UNCHANGED <<transcripts, undoStack, redoStack, edits, firstEdit, preMutation,
                   lastQuery>>
    /\ UNCHANGED <<transVars, detVars, hookVars, audioVars, engineVars, speechVars>>

AddSegment(segment) ==
    /\ Mutate("addSegment", Append(transcripts, segment))
    /\ UNCHANGED clock

AddSegments(segments) ==
    /\ Mutate("addSegments", transcripts \o segments)
    /\ UNCHANGED clock

UpdateSegment(segmentId, updates) ==
    LET index == FindIndex(transcripts, segmentId)
    IN  /\ IF index = 0
           THEN Reject("updateSegment")
           ELSE Mutate("updateSegment",
                       [transcripts EXCEPT
                           ![index] = Spread(transcripts[index], updates)])
        /\ UNCHANGED clock

DeleteSegment(segmentId) ==
    LET index == FindIndex(transcripts, segmentId)
    IN  /\ IF index = 0
           THEN Reject("deleteSegment")
           ELSE Mutate("deleteSegment",
                       SubSeq(transcripts, 1, index - 1)
                           \o SubSeq(transcripts, index + 1, Len(transcripts)))
        /\ UNCHANGED clock

\* now is what Date.now() returns during the call.
MergeSegments(segmentIds, now) ==
    LET found == [i \in 1..Len(segmentIds) |-> FindIndex(transcripts, segmentIds[i])]
        segments == [i \in 1..Len(segmentIds) |-> transcripts[found[i]]]
    IN  IF Len(segmentIds) < 2 \/ \E i \in 1..Len(segmentIds) : found[i] = 0
        THEN Reject("mergeSegments") /\ UNCHANGED clock
        ELSE /\ now >= clock
             /\ clock' = now
             /\ Mutate("mergeSegments",
                       SortByTimestamp(
                           Append(WithoutIds(transcripts, segmentIds),
                                  MergedSegment(segments, segmentIds, now))))

\* splitSegment followed by the sort that mergeSegments ends with.
SplitSegmentSorted(segmentId, splitIndex) ==
    LET index == FindIndex(transcripts, segmentId)
    IN  /\ IF index = 0 \/ splitIndex <= 0
              \/ splitIndex >= Len(transcripts[index].content)
           THEN Reject("splitSegment")
           ELSE LET segment == transcripts[index]
                    firstSegment ==
                        [segment EXCEPT
                            !.id = Append(segment.id, "1"),
                            !.content = Trim(SubSeq(segment.content, 1, splitIndex))]
                    secondSegment ==
                        [segment EXCEPT
                            !.id = Append(segment.id, "2"),
                            !.content = Trim(SubSeq(segment.content, splitIndex + 1,
                                                    Len(segment.content))),
                            !.timestamp = segment.timestamp + SplitOffsetMs]
                IN  Mutate("splitSegment",
                           SortByTimestamp(
                               SubSeq(transcripts, 1, index - 1)
                                   \o <<firstSegment, secondSegment>>
                                   \o SubSeq(transcripts, index + 1, Len(transcripts))))
        /\ UNCHANGED clock

SplitSegment(segmentId, splitIndex) ==
    LET index == FindIndex(transcripts, segmentId)
    IN  /\ IF index = 0 \/ splitIndex <= 0
              \/ splitIndex >= Len(transcripts[index].content)
           THEN Reject("splitSegment")
           ELSE LET segment == transcripts[index]
                    firstSegment ==
                        [segment EXCEPT
                            !.id = Append(segment.id, "1"),
                            !.content = Trim(SubSeq(segment.content, 1, splitIndex))]
                    secondSegment ==
                        [segment EXCEPT
                            !.id = Append(segment.id, "2"),
                            !.content = Trim(SubSeq(segment.content, splitIndex + 1,
                                                    Len(segment.content))),
                            !.timestamp = segment.timestamp + SplitOffsetMs]
                IN  Mutate("splitSegment",
                           SubSeq(transcripts, 1, index - 1)
                               \o <<firstSegment, secondSegment>>
                               \o SubSeq(transcripts, index + 1, Len(transcripts)))
        /\ UNCHANGED clock

Clear ==
    /\ Mutate("clear", <<>>)
    /\ UNCHANGED clock

SetTranscripts(ts) ==
    /\ Mutate("setTranscripts", ts)
    /\ UNCHANGED clock

Undo ==
    LET r == UndoResult(transcripts, undoStack, redoStack)
    IN  /\ transcripts' = r.transcripts
        /\ undoStack' = r.undoStack
        /\ redoStack' = r.redoStack
        /\ lastCall' = Called("undo", r.ok)
        /\ preMutation' = IF r.ok /\ preMutation # <<>>
                          THEN SubSeq(preMutation, 1, Len(preMutation) - 1)
                          ELSE preMutation
        /\ UNCHANGED <<clock, edits, firstEdit, lastQuery>>
        /\ UNCHANGED <<transVars, detVars, hookVars, audioVars, engineVars, speechVars>>

Redo ==
    LET r == RedoResult(transcripts, undoStack, redoStack)
    IN  /\ transcripts' = r.transcripts
        /\ undoStack' = r.undoStack
        /\ redoStack' = r.redoStack
        /\ lastCall' = Called("redo", r.ok)
        /\ preMutation' = IF r.ok THEN Remembered(preMutation, transcripts)
                          ELSE preMutation
        /\ UNCHANGED <<clock, edits, firstEdit, lastQuery>>
        /\ UNCHANGED <<transVars, detVars, hookVars, audioVars, engineVars, speechVars>>

----------------------------------------------------------------------------
(* The translation engines.  A text is a sequence of tokens; a dictionary   *)
(* phrase ("thank you") is one token.  Confidences are in hundredths.       *)

Engines == <<"web", "offline">>

LastEngine == Engines[Len(Engines)]

Req(text, from, to) == [text |-> text, from |-> from, to |-> to]

ReqThanks == Req(<<"thank you">>, "en", "ms")
ReqProgress == Req(<<"We", "need", "to", "discuss", "the", "project", "progress">>,
                   "en", "ms")
ReqSamePair == Req(<<"thank you">>, "auto", "en")

Requests == {ReqThanks, ReqProgress, ReqSamePair}

\* The language pairs OfflineTranslationEngine.dictionaries has a table for,
\* with the entries of each table that the texts above can meet.
Dictionaries ==
    [pair \in {<<"zh", "en">>, <<"en", "zh">>, <<"ms", "en">>, <<"en", "ms">>,
               <<"zh", "ms">>, <<"ms", "zh">>} |->
        IF pair = <<"en", "ms">>
        THEN [w \in {"thank you", "project", "meeting"} |->
                CASE w = "thank you" -> "terima kasih"
                  [] w = "project" -> "projek"
                  [] w = "meeting" -> "mesyuarat"]
        ELSE IF pair = <<"ms", "en">>
        THEN [w \in {"terima kasih", "projek"} |->
                CASE w = "terima kasih" -> "thank you"
                  [] w = "projek" -> "project"]
        ELSE <<>>]

\* mockTranslations of WebTranslationEngine: <<source, target, text>> -> text.
WebPresets ==
    [k \in {<<"en", "ms", ReqProgress.text>>} |->
        <<"Kita", "perlu", "bincang", "kemajuan", "projek">>]

CjkTokens == {"nihao"}
MalayParticles == {"yang", "dan", "atau", "dengan", "ini", "itu"}

\* detectLanguage of both engines.
DetectLanguage(text) ==
    IF \E i \in 1..Len(text) : text[i] \in CjkTokens THEN "zh"
    ELSE IF \E i \in 1..Len(text) : text[i] \in MalayParticles THEN "ms"
    ELSE "en"

SourceLanguage(req) ==
    IF req.from = "auto" THEN DetectLanguage(req.text) ELSE req.from

\* String.prototype.toLowerCase on a token.
Lower(tok) == IF tok = "We" THEN "we" ELSE tok

\* capitalizeFirstLetter on a text.
CapitalizeFirstLetter(text) ==
    IF text = <<>> THEN text
    ELSE [text EXCEPT ![1] =
            CASE text[1] = "we" -> "We"
              [] text[1] = "terima kasih" -> "Terima kasih"
              [] text[1] = "thank you" -> "Thank you"
              [] OTHER -> text[1]]

Min(a, b) == IF a <= b THEN a ELSE b

Result(text, confidence, source, notes) ==
    [translatedText |-> text, confidence |-> confidence,
     detectedSourceLanguage |-> source, contextualNotes |-> notes,
     processingTime |-> 0]

Fulfilled(result) == [kind |-> "ok", result |-> result, error |-> "none"]

Rejected(error) ==
    [kind |-> "error", result |-> Result(<<>>, 0, "undefined", <<>>), error |-> error]

NoOutcome == [kind |-> "pending", result |-> Result(<<>>, 0, "undefined", <<>>),
              error |-> "none"]

\* OfflineTranslationEngine.translate.  With no table for the pair the try
\* block throws, and its catch block reads `text`, which is declared inside
\* the try block: the call ends in a ReferenceError, not in a result.
OfflineTranslate(req) ==
    LET source == SourceLanguage(req)
    IN  IF <<source, req.to>> \notin DOMAIN Dictionaries
        THEN Rejected("ReferenceError")
        ELSE LET dictionary == Dictionaries[<<source, req.to>>]
                 lowered == [i \in 1..Len(req.text) |-> Lower(req.text[i])]
                 matched == {w \in DOMAIN dictionary :
                                \E i \in 1..Len(lowered) : lowered[i] = w}
                 replaced == [i \in 1..Len(lowered) |->
                                IF lowered[i] \in DOMAIN dictionary
                                THEN dictionary[lowered[i]]
                                ELSE lowered[i]]
             IN  IF matched = {}
                 THEN Fulfilled(Result(
                        CapitalizeFirstLetter(<<"[">> \o req.text \o <<"]">>),
                        10, source, <<"kept as is">>))
                 ELSE Fulfilled(Result(
                        CapitalizeFirstLetter(replaced),
                        Min(30 + 20 * Cardinality(matched), 100), source, <<>>))

\* WebTranslationEngine.translate: a preset, or else the offline engine's
\* answer at 0.8 of its confidence; any throw becomes "service unavailable".
WebTranslate(req) ==
    LET source == SourceLanguage(req)
        k == <<source, req.to, req.text>>
    IN  IF k \in DOMAIN WebPresets
        THEN Fulfilled(Result(WebPresets[k], 90, source, <<>>))
        ELSE LET inner == OfflineTranslate(req)
             IN  IF inner.kind = "error"
                 THEN Rejected("WebUnavailable")
                 ELSE LET confidence == (inner.result.confidence * 8) \div 10
                      IN  Fulfilled(Result(
                            inner.result.translatedText, confidence, source,
                            IF confidence < 70 THEN <<"limited quality">> ELSE <<>>))

EngineTranslate(engine, req) ==
    IF engine = "web" THEN WebTranslate(req) ELSE OfflineTranslate(req)

\* What isAvailable() may answer.
Availability(engine) == IF engine = "web" THEN BOOLEAN ELSE {TRUE}

\* Date.now() - startTime, in milliseconds: the web engine waits 200 ms or
\* more before it answers, the offline engine answers within the millisecond.
ProcessingTimes(engine) == IF engine = "web" THEN {200} ELSE {0}

----------------------------------------------------------------------------
(* TranslationManager: the cache. *)

maxCacheSize == 100

\* `${request.from}-${request.to}:${request.text}`
getCacheKey(req) == <<req.from, "-", req.to, ":">> \o req.text

CacheKeys(c) == [i \in 1..Len(c) |-> c[i].key]

CacheHas(c, key) == \E i \in 1..Len(c) : c[i].key = key

CacheGet(c, key) == c[CHOOSE i \in 1..Len(c) : c[i].key = key].result

\* Map.prototype.set: a key already there keeps its place.
CacheSet(c, key, result) ==
    IF CacheHas(c, key)
    THEN [i \in 1..Len(c) |->
            IF c[i].key = key THEN [key |-> key, result |-> result] ELSE c[i]]
    ELSE Append(c, [key |-> key, result |-> result])

\* cacheResult: at capacity, delete the first key of the map, then set.
cacheResultEvictLast(c, key, result) ==
    CacheSet(IF Len(c) >= maxCacheSize THEN SubSeq(c, 1, Len(c) - 1) ELSE c,
             key, result)

cacheResult(c, key, result) ==
    CacheSet(IF Len(c) >= maxCacheSize THEN Tail(c) ELSE c, key, result)

\* The reply on a cache hit: { ...cached, processingTime: 0 }.
CachedReply(cached) == [cached EXCEPT !.processingTime = 0]

----------------------------------------------------------------------------
(* TranslationManager.translate, one step per await. *)

MaxSlots == 2           \* calls of translate per run
MaxBatch == 2           \* requests in a batch

Slots == 1..MaxSlots

Idle ==
    [pc |-> "idle", req |-> ReqThanks, origin |-> "none", probing |-> "none",
     idx |-> 0, engine |-> "none", how |-> "none", probes |-> <<>>,
     calls |-> <<>>, outcome |-> NoOutcome, hit |-> FALSE, closed |-> FALSE,
     prefAtStart |-> "none", lastSuccAtStart |-> "none",
     adoptedAtSelect |-> "none", prefAfterSelect |-> "none", voided |-> FALSE]

Settled(e) == execs[e].pc = "settled"

\* The synchronous head of translate: the cache check, then selectEngine up
\* to its first isAvailable() call.
Started(req, origin) ==
    LET key == getCacheKey(req)
        base == [Idle EXCEPT !.req = req, !.origin = origin,
                             !.prefAtStart = preferredEngine,
                             !.lastSuccAtStart = lastSuccess]
    IN  IF CacheHas(cache, key)
        THEN [base EXCEPT !.pc = "settled", !.hit = TRUE,
                          !.outcome = Fulfilled(CachedReply(CacheGet(cache, key)))]
        ELSE IF preferredEngine # "none"
        THEN [base EXCEPT !.pc = "probePreferred", !.probing = preferredEngine]
        ELSE [base EXCEPT !.pc = "probe", !.idx = 1, !.probing = Engines[1]]

\* selectEngine after `await this.preferredEngine.isAvailable()`.
PreferredProbeReturns(e) ==
    /\ execs[e].pc = "probePreferred"
    /\ \E avail \in Availability(execs[e].probing) :
          LET x == [execs[e] EXCEPT
                       !.probes = Append(@, <<execs[e].probing, avail>>)]
          IN  execs' = [execs EXCEPT ![e] =
                  IF avail
                  THEN [x EXCEPT !.pc = "translating", !.how = "preferred",
                                 !.engine = preferredEngine, !.probing = "none",
                                 !.adoptedAtSelect = adopted,
                                 !.prefAfterSelect = preferredEngine,
                                 !.calls = <<>>]
                  ELSE [x EXCEPT !.pc = "probe", !.idx = 1,
                                 !.probing = Engines[1]]]
    /\ UNCHANGED <<cache, preferredEngine, requestQueue, batch, lastSuccess,
                   adopted, isTranslating>>

\* this.preferredEngine = engine, in selectEngine's loop.
AdoptNothing(current, engine) == current

Adopt(current, engine) == engine

\* selectEngine's loop after `await engine.isAvailable()`.
ProbeReturns(e) ==
    /\ execs[e].pc = "probe"
    /\ \E avail \in Availability(execs[e].probing) :
          LET x == [execs[e] EXCEPT
                       !.probes = Append(@, <<execs[e].probing, avail>>)]
              engine == execs[e].probing
          IN  IF avail
              THEN /\ preferredEngine' = Adopt(preferredEngine, engine)
                   /\ adopted' = engine
                   /\ execs' = [execs EXCEPT ![e] =
                        [x EXCEPT !.pc = "translating", !.how = "probed",
                                  !.engine = engine, !.probing = "none",
                                  !.adoptedAtSelect = engine,
                                  !.prefAfterSelect = preferredEngine']]
              ELSE /\ UNCHANGED <<preferredEngine, adopted>>
                   /\ execs' = [execs EXCEPT ![e] =
                        IF x.idx < Len(Engines)
                        THEN [x EXCEPT !.idx = @ + 1,
                                       !.probing = Engines[x.idx + 1]]
                        ELSE [x EXCEPT !.pc = "settled", !.probing = "none",
                                       !.outcome = Rejected("NoEngineAvailable")]]
    /\ UNCHANGED <<cache, requestQueue, batch, lastSuccess, isTranslating>>

\* `engine !== this.engines[this.engines.length - 1]`
NeverFallBack(engine) == FALSE

FallbackNeeded(engine) == engine # LastEngine

\* A result an engine returned: cacheResult, then return it.
Serve(e, engine, result) ==
    /\ cache' = cacheResult(cache, getCacheKey(execs[e].req), result)
    /\ lastSuccess' = engine
    /\ execs' = [f \in Slots |->
          IF f = e
          THEN [execs[e] EXCEPT !.pc = "settled", !.outcome = Fulfilled(result),
                                !.calls = Append(@, <<engine, "ok">>)]
          ELSE [execs[f] EXCEPT !.voided =
                    @ \/ (Settled(f) /\ ~CacheHas(cache', getCacheKey(execs[f].req)))]]

\* translate after `await engine.translate(request)`.
EngineReturns(e) ==
    /\ execs[e].pc = "translating"
    /\ LET engine == execs[e].engine
           out == EngineTranslate(engine, execs[e].req)
       IN  IF out.kind = "ok"
           THEN \E t \in ProcessingTimes(engine) :
                    Serve(e, engine, [out.result EXCEPT !.processingTime = t])
           ELSE /\ execs' = [execs EXCEPT ![e] =
                      IF FallbackNeeded(engine)
                      THEN [@ EXCEPT !.pc = "fallback",
                                     !.calls = Append(@, <<engine, "fail">>)]
                      ELSE [@ EXCEPT !.pc = "settled", !.outcome = out,
                                     !.calls = Append(@, <<engine, "fail">>)]]
                /\ UNCHANGED <<cache, lastSuccess>>
    /\ UNCHANGED <<preferredEngine, requestQueue, batch, adopted, isTranslating>>

\* translate after `await fallbackEngine.translate(request)`.
FallbackReturns(e) ==
    /\ execs[e].pc = "fallback"
    /\ LET out == EngineTranslate(LastEngine, execs[e].req)
       IN  IF out.kind = "ok"
           THEN \E t \in ProcessingTimes(LastEngine) :
                    Serve(e, LastEngine, [out.result EXCEPT !.processingTime = t])
           ELSE /\ execs' = [execs EXCEPT ![e] =
                      [@ EXCEPT !.pc = "settled",
                                !.outcome = Rejected("AllEnginesUnavailable"),
                                !.calls = Append(@, <<LastEngine, "fail">>)]]
                /\ UNCHANGED <<cache, lastSuccess>>
    /\ UNCHANGED <<preferredEngine, requestQueue, batch, adopted, isTranslating>>

\* clearCache
ClearCache ==
    /\ cache # <<>>
    /\ cache' = <<>>
    /\ execs' = [e \in Slots |-> [execs[e] EXCEPT !.voided = @ \/ Settled(e)]]
    /\ UNCHANGED <<preferredEngine, requestQueue, batch, lastSuccess, adopted,
                   isTranslating>>

----------------------------------------------------------------------------
(* The hook: translate with its table of pending requests, translateBatch. *)

QueueSet(q, key, e) ==
    [k \in DOMAIN q \cup {key} |-> IF k = key THEN e ELSE q[k]]

\* A finally block that leaves the table alone.
QueueDeleteNothing(q, key) == q

QueueDelete(q, key) ==
    [k \in DOMAIN q \ {key} |-> q[k]]

FreeSlot(e) ==
    /\ execs[e].pc = "idle"
    /\ \A f \in Slots : f < e => execs[f].pc # "idle"

\* useTranslation.translate: the pending promise of the same key, or a new
\* call of the manager, entered in the table.
HookTranslate(req) ==
    LET key == getCacheKey(req)
    IN  /\ IF key \in DOMAIN requestQueue
           THEN UNCHANGED <<execs, requestQueue, isTranslating>>
           ELSE \E e \in Slots :
                  /\ FreeSlot(e)
                  /\ isTranslating' = TRUE
                  /\ execs' = [execs EXCEPT ![e] = Started(req, "hook")]
                  /\ requestQueue' = QueueSet(requestQueue, key, e)
        /\ UNCHANGED <<cache, preferredEngine, batch, lastSuccess, adopted>>

\* The hook's continuation once the manager's promise has settled: its
\* finally block deletes the key from the table.
HookSettle(e) ==
    /\ execs[e].origin = "hook"
    /\ Settled(e)
    /\ ~execs[e].closed
    /\ execs' = [execs EXCEPT ![e].closed = TRUE]
    /\ isTranslating' = FALSE
    /\ requestQueue' = QueueDelete(requestQueue, getCacheKey(execs[e].req))
    /\ UNCHANGED <<cache, preferredEngine, batch, lastSuccess, adopted>>

NoBatch == [status |-> "none", requests |-> <<>>, slots |-> <<>>, results |-> <<>>]

\* The result translateBatch gives for a rejected item.
Degraded(req) ==
    [translatedText |-> req.text, confidence |-> 0,
     detectedSourceLanguage |-> "undefined", contextualNotes |-> <<"failed">>,
     processingTime |-> 0]

\* Promise.all in place of Promise.allSettled.
BatchOutcomeAll(requests, outcomes) ==
    IF \E i \in 1..Len(outcomes) : outcomes[i].kind = "error"
    THEN [status |-> "rejected", results |-> <<>>]
    ELSE [status |-> "fulfilled",
          results |-> [i \in 1..Len(outcomes) |-> outcomes[i].result]]

\* translateBatch after `await Promise.allSettled(...)`: the map over results.
BatchOutcome(requests, outcomes) ==
    [status |-> "fulfilled",
     results |-> [i \in 1..Len(outcomes) |->
                    IF outcomes[i].kind = "ok"
                    THEN outcomes[i].result
                    ELSE Degraded(requests[i])]]

\* translateBatch: every request's translate starts before any await returns.
BatchStart(requests) ==
    /\ batch.status = "none"
    /\ isTranslating' = TRUE
    /\ \E first \in Slots :
          /\ FreeSlot(first)
          /\ first + Len(requests) - 1 <= MaxSlots
          /\ execs' = [e \in Slots |->
                IF e >= first /\ e < first + Len(requests)
                THEN Started(requests[e - first + 1], "batch")
                ELSE execs[e]]
          /\ batch' = [status |-> "pending", requests |-> requests,
                       slots |-> [i \in 1..Len(requests) |-> first + i - 1],
                       results |-> <<>>]
    /\ UNCHANGED <<cache, preferredEngine, requestQueue, lastSuccess, adopted>>

BatchFinish ==
    /\ batch.status = "pending"
    /\ \A i \in 1..Len(batch.slots) : Settled(batch.slots[i])
    /\ LET out == BatchOutcome(batch.requests,
                    [i \in 1..Len(batch.slots) |-> execs[batch.slots[i]].outcome])
       IN  batch' = [batch EXCEPT !.status = out.status, !.results = out.results]
    /\ isTranslating' = FALSE
    /\ UNCHANGED <<cache, preferredEngine, requestQueue, execs, lastSuccess,
                   adopted>>

TransInit ==
    /\ cache = <<>>
    /\ preferredEngine = "none"
    /\ requestQueue = <<>>
    /\ execs = [e \in Slots |-> Idle]
    /\ batch = NoBatch
    /\ lastSuccess = "none"
    /\ adopted = "none"
    /\ isTranslating = FALSE

BatchLists ==
    { <<ReqSamePair>>, <<ReqProgress, ReqProgress>>, <<ReqThanks, ReqSamePair>>,
      <<ReqSamePair, ReqProgress, ReqProgress>> }

SelectStep ==
    /\ \E e \in Slots : PreferredProbeReturns(e) \/ ProbeReturns(e)
    /\ UNCHANGED <<storeVars, detVars, hookVars, audioVars, engineVars, speechVars>>

EngineStep ==
    /\ \E e \in Slots : EngineReturns(e) \/ FallbackReturns(e)
    /\ UNCHANGED <<storeVars, detVars, hookVars, audioVars, engineVars, speechVars>>

HookCall ==
    /\ \E r \in Requests : HookTranslate(r)
    /\ UNCHANGED <<storeVars, detVars, hookVars, audioVars, engineVars, speechVars>>

HookReturn ==
    /\ \E e \in Slots : HookSettle(e)
    /\ UNCHANGED <<storeVars, detVars, hookVars, audioVars, engineVars, speechVars>>

BatchCall ==
    /\ \E rs \in BatchLists : Len(rs) <= MaxBatch /\ BatchStart(rs)
    /\ UNCHANGED <<storeVars, detVars, hookVars, audioVars, engineVars, speechVars>>

BatchReturn ==
    /\ BatchFinish
    /\ UNCHANGED <<storeVars, detVars, hookVars, audioVars, engineVars, speechVars>>

CacheCleared ==
    /\ ClearCache
    /\ UNCHANGED <<storeVars, detVars, hookVars, audioVars, engineVars, speechVars>>

TransNext ==
    \/ SelectStep \/ EngineStep \/ HookCall \/ HookReturn
    \/ BatchCall \/ BatchReturn \/ CacheCleared

----------------------------------------------------------------------------
(* LanguageDetector.  A text is a sequence of one-character strings; a      *)
(* character outside ASCII is written by its code point, "u4f60".  A share  *)
(* of the breakdown is a fraction <<numerator, denominator>>.  A confidence *)
(* is kept in Scale-ths, rounded down where the code rounds a double.       *)

Scale == 10000

maxHistorySize == 50

Letters ==
    {"a", "b", "c", "d", "e", "f", "g", "h", "i", "j", "k", "l", "m", "n", "o", "p", "q", "r", "s", "t", "u", "v", "w", "x", "y", "z"}

Digits == {"0", "1", "2", "3", "4", "5", "6", "7", "8", "9"}

\* String.prototype.toLowerCase, on the letters \w knows.
UpperToLower ==
    ("A" :> "a") @@ ("B" :> "b") @@ ("C" :> "c") @@ ("D" :> "d") @@ ("E"
    :> "e") @@ ("F" :> "f") @@ ("G" :> "g") @@ ("H" :> "h") @@ ("I" :>
    "i") @@ ("J" :> "j") @@ ("K" :> "k") @@ ("L" :> "l") @@ ("M" :> "m")
    @@ ("N" :> "n") @@ ("O" :> "o") @@ ("P" :> "p") @@ ("Q" :> "q") @@
    ("R" :> "r") @@ ("S" :> "s") @@ ("T" :> "t") @@ ("U" :> "u") @@ ("V"
    :> "v") @@ ("W" :> "w") @@ ("X" :> "x") @@ ("Y" :> "y") @@ ("Z" :>
    "z")

\* The characters of the model's texts and word lists in u4e00..u9fff.
CjkChars == {
    "u4e0e", "u4e2d", "u4e3a", "u4e48", "u4e86", "u4ec0", "u4eca", "u4ed6",
    "u4ee5", "u4eec", "u4f1a", "u4f46", "u4f60", "u5019", "u5085", "u5143",
    "u5305", "u5348", "u53d4", "u540e", "u548c", "u54e5", "u54ea", "u56e0",
    "u56fd", "u5728", "u5929", "u5979", "u597d", "u59d0", "u59e8", "u5b50",
    "u5b83", "u5bb5", "u5e08", "u5e86", "u600e", "u6211", "u6240", "u65f6",
    "u660e", "u6625", "u6628", "u662f", "u6709", "u6761", "u677f", "u6e05",
    "u7136", "u7684", "u79cb", "u7a0b", "u7aef", "u7ca5", "u8001", "u8282",
    "u8336", "u8bae", "u8c01", "u8fd9", "u90a3", "u91cc", "u963f", "u9762",
    "u997a" }

\* The characters of the second zh pattern.
ZhPunctuation == {"'", "\"", "u3002", "uff01", "uff0c", "uff1a", "uff1b", "uff1f"}

IsCjk(ch) == ch \in CjkChars

\* \w
IsWordChar(ch) == ch \in Letters \cup DOMAIN UpperToLower \cup Digits \cup {"_"}

\* \s
IsWhite(ch) == ch \in {" ", "\t", "\n"}

zhCommonWords == {
      <<"u7684">>, <<"u4e86">>, <<"u662f">>, <<"u6211">>, <<"u4f60">>,
      <<"u4ed6">>, <<"u5979">>, <<"u5b83">>, <<"u6211", "u4eec">>,
      <<"u4f60", "u4eec">>, <<"u4ed6", "u4eec">>, <<"u8fd9">>, <<"u90a3">>,
      <<"u6709">>, <<"u5728">>, <<"u548c">>, <<"u4e0e">>,
      <<"u4f46", "u662f">>, <<"u7136", "u540e">>, <<"u56e0", "u4e3a">>,
      <<"u6240", "u4ee5">>, <<"u4ec0", "u4e48">>, <<"u600e", "u4e48">>,
      <<"u4e3a", "u4ec0", "u4e48">>, <<"u54ea", "u91cc">>,
      <<"u4ec0", "u4e48", "u65f6", "u5019">>, <<"u8c01">>,
      <<"u4eca", "u5929">>, <<"u660e", "u5929">>, <<"u6628", "u5929">> }

enCommonWords == {
      <<"t", "h", "e">>, <<"b", "e">>, <<"t", "o">>, <<"o", "f">>,
      <<"a", "n", "d">>, <<"a">>, <<"i", "n">>, <<"t", "h", "a", "t">>,
      <<"h", "a", "v", "e">>, <<"I">>, <<"i", "t">>, <<"f", "o", "r">>,
      <<"n", "o", "t">>, <<"o", "n">>, <<"w", "i", "t", "h">>,
      <<"h", "e">>, <<"a", "s">>, <<"y", "o", "u">>, <<"d", "o">>,
      <<"a", "t">>, <<"t", "h", "i", "s">>, <<"b", "u", "t">>,
      <<"h", "i", "s">>, <<"b", "y">>, <<"f", "r", "o", "m">>,
      <<"t", "h", "e", "y">>, <<"w", "e">>, <<"s", "a", "y">>,
      <<"h", "e", "r">>, <<"s", "h", "e">> }

msCommonWords == {
      <<"y", "a", "n", "g">>, <<"d", "a", "n">>, <<"a", "t", "a", "u">>,
      <<"d", "e", "n", "g", "a", "n">>, <<"u", "n", "t", "u", "k">>,
      <<"i", "n", "i">>, <<"i", "t", "u">>,
      <<"a", "d", "a", "l", "a", "h">>, <<"t", "i", "d", "a", "k">>,
      <<"a", "d", "a">>, <<"s", "a", "y", "a">>, <<"a", "n", "d", "a">>,
      <<"d", "i", "a">>, <<"m", "e", "r", "e", "k", "a">>,
      <<"k", "i", "t", "a">>, <<"k", "a", "m", "i">>,
      <<"a", "w", "a", "k">>, <<"p", "a", "d", "a">>,
      <<"d", "a", "l", "a", "m">>, <<"k", "e">>, <<"a", "p", "a">>,
      <<"m", "a", "n", "a">>, <<"b", "i", "l", "a">>,
      <<"m", "e", "n", "g", "a", "p", "a">>,
      <<"b", "a", "g", "a", "i", "m", "a", "n", "a">>,
      <<"s", "i", "a", "p", "a">>, <<"h", "a", "r", "i">>,
      <<"m", "a", "s", "a">>, <<"t", "a", "h", "u", "n">> }

\* The alternatives of the three \b(...)\b patterns of en and of ms.
enPatterns == <<
    {<<"t", "h", "e">>, <<"a">>, <<"a", "n">>, <<"a", "n", "d">>, <<"o",
     "r">>, <<"b", "u", "t">>, <<"i", "n">>, <<"o", "n">>, <<"a", "t">>,
     <<"t", "o">>, <<"f", "o", "r">>, <<"o", "f">>, <<"w", "i", "t", "h">>,
     <<"b", "y">>},
    {<<"i">>, <<"y", "o", "u">>, <<"h", "e">>, <<"s", "h", "e">>, <<"i",
     "t">>, <<"w", "e">>, <<"t", "h", "e", "y">>, <<"t", "h", "i", "s">>,
     <<"t", "h", "a", "t">>, <<"t", "h", "e", "s", "e">>, <<"t", "h", "o",
     "s", "e">>},
    {<<"w", "h", "a", "t">>, <<"w", "h", "e", "r", "e">>, <<"w", "h", "e",
     "n">>, <<"w", "h", "y">>, <<"h", "o", "w">>, <<"w", "h", "o">>} >>

msPatterns == <<
    {<<"y", "a", "n", "g">>, <<"d", "a", "n">>, <<"a", "t", "a", "u">>,
     <<"d", "e", "n", "g", "a", "n">>, <<"u", "n", "t", "u", "k">>, <<"i",
     "n", "i">>, <<"i", "t", "u">>, <<"a", "d", "a", "l", "a", "h">>, <<"t",
     "i", "d", "a", "k">>, <<"a", "d", "a">>},
    {<<"s", "a", "y", "a">>, <<"a", "n", "d", "a">>, <<"d", "i", "a">>,
     <<"m", "e", "r", "e", "k", "a">>, <<"k", "i", "t", "a">>, <<"k", "a",
     "m", "i">>, <<"a", "w", "a", "k">>},
    {<<"a", "p", "a">>, <<"m", "a", "n", "a">>, <<"b", "i", "l", "a">>,
     <<"m", "e", "n", "g", "a", "p", "a">>, <<"b", "a", "g", "a", "i", "m",
     "a", "n", "a">>, <<"s", "i", "a", "p", "a">>} >>

\* The alternatives of /\b(me|ber|ter|ke|pe|per|di|se)[\w]+/g.
malayAffixes == {<<"m", "e">>, <<"b", "e", "r">>, <<"t", "e", "r">>, <<"k", "e">>, <<"p", "e">>, <<"p", "e", "r">>, <<"d", "i">>, <<"s", "e">>}

allMarkers == <<
    [culture |-> "chinese", marker |-> <<"u6625", "u8282">>],
    [culture |-> "chinese", marker |-> <<"u4e2d", "u79cb">>],
    [culture |-> "chinese", marker |-> <<"u7aef", "u5348">>],
    [culture |-> "chinese", marker |-> <<"u6e05", "u660e">>],
    [culture |-> "chinese", marker |-> <<"u56fd", "u5e86">>],
    [culture |-> "chinese", marker |-> <<"u5143", "u5bb5">>],
    [culture |-> "chinese", marker |-> <<"u8001", "u677f">>],
    [culture |-> "chinese", marker |-> <<"u5e08", "u5085">>],
    [culture |-> "chinese", marker |-> <<"u963f", "u59e8">>],
    [culture |-> "chinese", marker |-> <<"u53d4", "u53d4">>],
    [culture |-> "chinese", marker |-> <<"u54e5", "u54e5">>],
    [culture |-> "chinese", marker |-> <<"u59d0", "u59d0">>],
    [culture |-> "chinese", marker |-> <<"u8336">>],
    [culture |-> "chinese", marker |-> <<"u7ca5">>],
    [culture |-> "chinese", marker |-> <<"u5305", "u5b50">>],
    [culture |-> "chinese", marker |-> <<"u997a", "u5b50">>],
    [culture |-> "chinese", marker |-> <<"u9762", "u6761">>],
    [culture |-> "malay", marker |-> <<"h", "a", "r", "i", " ", "r", "a", "y", "a">>],
    [culture |-> "malay", marker |-> <<"r", "a", "m", "a", "d", "a", "n">>],
    [culture |-> "malay", marker |-> <<"c", "h", "i", "n", "e", "s", "e", " ", "n", "e", "w", " ", "y", "e", "a", "r">>],
    [culture |-> "malay", marker |-> <<"d", "e", "e", "p", "a", "v", "a", "l", "i">>],
    [culture |-> "malay", marker |-> <<"m", "a", "k">>],
    [culture |-> "malay", marker |-> <<"p", "a", "k">>],
    [culture |-> "malay", marker |-> <<"k", "a", "k">>],
    [culture |-> "malay", marker |-> <<"a", "b", "a", "n", "g">>],
    [culture |-> "malay", marker |-> <<"a", "d", "i", "k">>],
    [culture |-> "malay", marker |-> <<"n", "a", "s", "i">>],
    [culture |-> "malay", marker |-> <<"m", "e", "e">>],
    [culture |-> "malay", marker |-> <<"r", "o", "t", "i">>],
    [culture |-> "malay", marker |-> <<"t", "e", "h">>],
    [culture |-> "malay", marker |-> <<"k", "o", "p", "i">>],
    [culture |-> "western", marker |-> <<"c", "h", "r", "i", "s", "t", "m", "a", "s">>],
    [culture |-> "western", marker |-> <<"t", "h", "a", "n", "k", "s", "g", "i", "v", "i", "n", "g">>],
    [culture |-> "western", marker |-> <<"e", "a", "s", "t", "e", "r">>],
    [culture |-> "western", marker |-> <<"h", "a", "l", "l", "o", "w", "e", "e", "n">>],
    [culture |-> "western", marker |-> <<"s", "i", "r">>],
    [culture |-> "western", marker |-> <<"m", "a", "d", "a", "m">>],
    [culture |-> "western", marker |-> <<"m", "r">>],
    [culture |-> "western", marker |-> <<"m", "r", "s">>],
    [culture |-> "western", marker |-> <<"m", "s">>],
    [culture |-> "western", marker |-> <<"c", "o", "f", "f", "e", "e">>],
    [culture |-> "western", marker |-> <<"t", "e", "a">>],
    [culture |-> "western", marker |-> <<"b", "r", "e", "a", "k", "f", "a", "s", "t">>],
    [culture |-> "western", marker |-> <<"l", "u", "n", "c", "h">>],
    [culture |-> "western", marker |-> <<"d", "i", "n", "n", "e", "r">>] >>

\* body(v) with v computed once, as a `const` is.
With(v, body(_)) == CHOOSE r \in {body(x) : x \in {v}} : TRUE

\* The blank test without trim().
IsBlankNoTrim(text) == text = <<>>

\* `!text || text.trim().length === 0`
IsBlank(text) == \A i \in 1..Len(text) : IsWhite(text[i])

toLowerCase(text) ==
    [i \in 1..Len(text) |->
        IF text[i] \in DOMAIN UpperToLower THEN UpperToLower[text[i]] ELSE text[i]]

\* replace(/\s+/g, ' ')
RECURSIVE CollapseWhite(_)
CollapseWhite(text) ==
    IF text = <<>> THEN <<>>
    ELSE IF ~IsWhite(Head(text)) THEN <<Head(text)>> \o CollapseWhite(Tail(text))
    ELSE IF Len(text) > 1 /\ IsWhite(text[2]) THEN CollapseWhite(Tail(text))
    ELSE <<" ">> \o CollapseWhite(Tail(text))

\* replace(/[^\u4e00-\u9fff\w\s]/g, ' ')
KeepWordsAndSpace(text) ==
    [i \in 1..Len(text) |->
        IF IsCjk(text[i]) \/ IsWordChar(text[i]) \/ IsWhite(text[i])
        THEN text[i] ELSE " "]

\* preprocessText
preprocessText(text) ==
    With(toLowerCase(text), LAMBDA lowered :
    With(KeepWordsAndSpace(lowered), LAMBDA kept :
    With(CollapseWhite(kept), LAMBDA collapsed :
    With(TrimStart(collapsed), LAMBDA left : TrimEnd(left)))))

\* The k-th smallest element of a set of numbers.
Nth(set, k) == CHOOSE i \in set : Cardinality({j \in set : j < i}) = k - 1

\* Where the maximal runs of characters of a class start, and where the run
\* that starts at i ends.
RunStarts(text, InClass(_)) ==
    {i \in 1..Len(text) : InClass(text[i]) /\ (i = 1 \/ ~InClass(text[i - 1]))}

RunEnd(text, InClass(_), i) ==
    CHOOSE j \in i..Len(text) :
        /\ \A k \in i..j : InClass(text[k])
        /\ j = Len(text) \/ ~InClass(text[j + 1])

\* text.split(/\s+/): what lies before, between and after the runs of \s.
SplitWhite(text) ==
    With(RunStarts(text, IsWhite), LAMBDA gaps :
        [k \in 1..(Cardinality(gaps) + 1) |->
            SubSeq(text,
                   IF k = 1 THEN 1 ELSE RunEnd(text, IsWhite, Nth(gaps, k - 1)) + 1,
                   IF k = Cardinality(gaps) + 1 THEN Len(text)
                   ELSE Nth(gaps, k) - 1)])

\* The maximal runs of \w characters of a text: what lies between two \b.
WordRuns(text) ==
    With(RunStarts(text, IsWordChar), LAMBDA starts :
        [k \in 1..Cardinality(starts) |->
            With(Nth(starts, k), LAMBDA i :
                SubSeq(text, i, RunEnd(text, IsWordChar, i)))])

\* How many elements of a sequence are in a set.
CountIn(items, set) == Cardinality({i \in 1..Len(items) : items[i] \in set})

\* A run the affix pattern matches: an affix and at least one more \w.
HasAffix(run) ==
    \E a \in malayAffixes :
        Len(run) > Len(a) /\ SubSeq(run, 1, Len(a)) = a

\* text.match(regex).length, summed over the patterns of a language.
PatternMatches(lang, text, runs) ==
    IF lang = "zh"
    THEN CountIn(text, CjkChars) + CountIn(text, ZhPunctuation)
    ELSE IF lang = "en"
    THEN CountIn(runs, enPatterns[1]) + CountIn(runs, enPatterns[2])
            + CountIn(runs, enPatterns[3])
    ELSE CountIn(runs, msPatterns[1]) + CountIn(runs, msPatterns[2])
            + CountIn(runs, msPatterns[3])

commonWords(lang) ==
    CASE lang = "zh" -> zhCommonWords
      [] lang = "en" -> enCommonWords
      [] lang = "ms" -> msCommonWords

\* The score of one language: its patterns, its common words among the
\* words of the text, and the feature particular to it.
languageScore(lang, text, words, runs) ==
    PatternMatches(lang, text, runs) * 2
        + CountIn(words, commonWords(lang)) * 3
        + (IF lang = "zh" THEN CountIn(text, CjkChars) * 5 ELSE 0)
        + (IF lang = "ms"
           THEN Cardinality({i \in 1..Len(runs) : HasAffix(runs[i])}) * 2
           ELSE 0)

\* calculateLanguageScores
calculateLanguageScores(text) ==
    With(SplitWhite(text), LAMBDA words :
    With(WordRuns(text), LAMBDA runs :
        [zh |-> languageScore("zh", text, words, runs),
         en |-> languageScore("en", text, words, runs),
         ms |-> languageScore("ms", text, words, runs)]))

\* normalizeScores
normalizeScores(scores) ==
    LET total == scores.zh + scores.en + scores.ms
    IN  IF total = 0
        THEN [zh |-> <<0, 1>>, en |-> <<1, 1>>, ms |-> <<0, 1>>]
        ELSE [zh |-> <<scores.zh, total>>, en |-> <<scores.en, total>>,
              ms |-> <<scores.ms, total>>]

\* a < b, a = b on fractions
Less(a, b) == a[1] * b[2] < b[1] * a[2]

Same(a, b) == a[1] * b[2] = b[1] * a[2]

\* Math.max on fractions
Greatest(a, b) == IF Less(a, b) THEN b ELSE a

\* getPrimaryLanguage
getPrimaryLanguage(breakdown, minConfidence) ==
    LET maxScore == Greatest(breakdown.zh, Greatest(breakdown.en, breakdown.ms))
    IN  IF Less(maxScore, minConfidence) THEN "en"
        ELSE IF Same(breakdown.zh, maxScore) THEN "zh"
        ELSE IF Same(breakdown.en, maxScore) THEN "en"
        ELSE "ms"

Least(a, b) == IF Less(a, b) THEN a ELSE b

\* Object.values(breakdown).sort((a, b) => b - a)[1]
SecondHighest(breakdown) ==
    Greatest(Least(breakdown.zh, breakdown.en),
             Least(Greatest(breakdown.zh, breakdown.en), breakdown.ms))

\* The highest share, not the second highest, compared with 0.3.
detectMixedLanguageHighest(breakdown) ==
    Less(<<3, 10>>, Greatest(breakdown.zh, Greatest(breakdown.en, breakdown.ms)))

\* detectMixedLanguage: the second highest share is above 0.3
detectMixedLanguage(breakdown) == Less(<<3, 10>>, SecondHighest(breakdown))

\* detectWordLanguage
detectWordLanguage(word) ==
    IF \E i \in 1..Len(word) : IsCjk(word[i]) THEN "zh"
    ELSE IF toLowerCase(word) \in zhCommonWords THEN "zh"
    ELSE IF toLowerCase(word) \in enCommonWords THEN "en"
    ELSE IF toLowerCase(word) \in msCommonWords THEN "ms"
    ELSE "en"

\* The indices (from 0) of the words whose language differs from that of the
\* word before.
RECURSIVE SwitchingPoints(_, _)
SwitchingPoints(lang, i) ==
    IF i > Len(lang) THEN <<>>
    ELSE (IF lang[i] # lang[i - 1] THEN <<i - 1>> ELSE <<>>)
            \o SwitchingPoints(lang, i + 1)

\* detectCodeSwitching
detectCodeSwitching(text) ==
    With(SplitWhite(text), LAMBDA words :
    With([i \in 1..Len(words) |-> detectWordLanguage(words[i])], LAMBDA lang :
        SwitchingPoints(lang, 2)))

\* text.includes(marker)
Includes(text, marker) ==
    \E i \in 1..(Len(text) - Len(marker) + 1) :
        SubSeq(text, i, i + Len(marker) - 1) = marker

\* detectCulturalMarkers: `${culture}:${marker}` of the markers in the text.
RECURSIVE MarkersIn(_, _)
MarkersIn(text, markers) ==
    IF markers = <<>> THEN <<>>
    ELSE (IF Includes(text, Head(markers).marker)
          THEN << <<Head(markers).culture, ":", Head(markers).marker>> >>
          ELSE <<>>) \o MarkersIn(text, Tail(markers))

detectCulturalMarkers(text) == MarkersIn(text, allMarkers)

\* A share as a confidence.
ToScale(share) == (share[1] * Scale) \div share[2]

\* languageHistory.slice(-10)
Recent(history) ==
    SubSeq(history, IF Len(history) > 10 THEN Len(history) - 9 ELSE 1, Len(history))

RECURSIVE SumOf(_, _)
SumOf(records, language) ==
    IF records = <<>> THEN 0
    ELSE (IF Head(records).language = language THEN Head(records).confidence ELSE 0)
            + SumOf(Tail(records), language)

\* The blend applied whether or not the caller asked for the history.
calculateConfidenceAlwaysBlend(breakdown, primaryLanguage, useHistory, history) ==
    LET confidence == ToScale(breakdown[primaryLanguage])
    IN  IF Len(history) > 0
        THEN Min((confidence * 7
                    + (SumOf(Recent(history), primaryLanguage)
                            \div Len(Recent(history))) * 3) \div 10, Scale)
        ELSE Min(confidence, Scale)

\* The blend with the sum of the confidences in place of their mean, uncapped.
calculateConfidenceSum(breakdown, primaryLanguage, useHistory, history) ==
    LET confidence == ToScale(breakdown[primaryLanguage])
    IN  IF useHistory /\ Len(history) > 0
        THEN (confidence * 7 + SumOf(Recent(history), primaryLanguage) * 3) \div 10
        ELSE confidence

\* calculateConfidence
calculateConfidence(breakdown, primaryLanguage, useHistory, history) ==
    LET confidence == ToScale(breakdown[primaryLanguage])
    IN  IF useHistory /\ Len(history) > 0
        THEN With(Recent(history), LAMBDA recentHistory :
             With(SumOf(recentHistory, primaryLanguage) \div Len(recentHistory),
                  LAMBDA historicalConfidence :
                    Min((confidence * 7 + historicalConfidence * 3) \div 10, Scale)))
        ELSE Min(confidence, Scale)

\* The history left to grow.
updateHistoryNoCap(history, language, confidence, now) ==
    Append(history,
           [language |-> language, timestamp |-> now, confidence |-> confidence])

\* updateHistory
updateHistory(history, language, confidence, now) ==
    LET pushed == Append(history, [language |-> language, timestamp |-> now,
                                   confidence |-> confidence])
    IN  IF Len(pushed) > maxHistorySize
        THEN SubSeq(pushed, Len(pushed) - maxHistorySize + 1, Len(pushed))
        ELSE pushed

\* The options detectLanguage takes when none are given.
DefaultOptions ==
    [useHistory |-> TRUE, detectCodeSwitching |-> TRUE, minConfidence |-> <<3, 10>>]

\* An optional field: <<>> for undefined, <<v>> for the value v.
Optional(list) == IF list # <<>> THEN <<list>> ELSE <<>>

BlankResult ==
    [detectedLanguage |-> "en", confidence |-> 0,
     languageBreakdown |-> [zh |-> <<0, 1>>, en |-> <<0, 1>>, ms |-> <<0, 1>>],
     codeSwitchingPoints |-> <<>>, culturalMarkers |-> <<>>]

\* The result of detectLanguage on a text that is not blank.
DetectionResult(cleanText, breakdown, primaryLanguage, options, history) ==
    [detectedLanguage |-> IF detectMixedLanguage(breakdown) THEN "mixed"
                          ELSE primaryLanguage,
     confidence |-> calculateConfidence(breakdown, primaryLanguage,
                                        options.useHistory, history),
     languageBreakdown |-> breakdown,
     codeSwitchingPoints |->
        Optional(IF options.detectCodeSwitching
                 THEN detectCodeSwitching(cleanText) ELSE <<>>),
     culturalMarkers |-> Optional(detectCulturalMarkers(cleanText))]

\* detectLanguage: the result, the history it leaves, and the record it
\* pushed on the history, if any.
detectLanguage(text, options, history, now) ==
    IF IsBlank(text)
    THEN [result |-> BlankResult, history |-> history, pushed |-> <<>>]
    ELSE With(preprocessText(text), LAMBDA cleanText :
         With(normalizeScores(calculateLanguageScores(cleanText)), LAMBDA breakdown :
         With(getPrimaryLanguage(breakdown, options.minConfidence),
              LAMBDA primaryLanguage :
         With(DetectionResult(cleanText, breakdown, primaryLanguage, options,
                              history), LAMBDA result :
            IF options.useHistory
            THEN With(updateHistory(history, result.detectedLanguage,
                                    result.confidence, now), LAMBDA after :
                    [result |-> result, history |-> after,
                     pushed |-> <<after[Len(after)]>>])
            ELSE [result |-> result, history |-> history, pushed |-> <<>>]))))

NoDetection ==
    [op |-> "none", text |-> <<>>, options |-> DefaultOptions,
     result |-> BlankResult]

\* What a call of detectLanguage does to the detector.
DetectorStep(text, options) ==
    \E out \in {detectLanguage(text, options, languageHistory, detCalls)} :
        /\ languageHistory' = out.history
        /\ appended' = appended \o out.pushed
        /\ detCalls' = detCalls + 1
        /\ lastDetection' = [op |-> "detectLanguage", text |-> text,
                             options |-> options, result |-> out.result]

\* A call of detectLanguage.
Detect(text, options) ==
    /\ DetectorStep(text, options)
    /\ UNCHANGED <<storeVars, transVars, hookVars, audioVars, engineVars,
                   speechVars>>

\* clearHistory
ClearHistory ==
    /\ languageHistory # <<>>
    /\ languageHistory' = <<>>
    /\ appended' = <<>>
    /\ lastDetection' = [lastDetection EXCEPT !.op = "clearHistory"]
    /\ UNCHANGED detCalls
    /\ UNCHANGED <<storeVars, transVars, hookVars, audioVars, engineVars,
                   speechVars>>

DetInit ==
    /\ languageHistory = <<>>
    /\ appended = <<>>
    /\ detCalls = 0
    /\ lastDetection = NoDetection

(* The texts and options the callers hand to the detector. *)

TextEmpty == <<>>

TextSpaces ==
    <<" ", " ">>

TextSigns ==
    <<"?", "!">>

TextAgenda ==
    <<"H", "e", "l", "l", "o", ",", " ", "a", "p", "a", " ", "a", "g", "e",
    "n", "d", "a", " ", "m", "e", "s", "y", "u", "a", "r", "a", "t", " ",
    "h", "a", "r", "i", " ", "i", "n", "i", "?">>

TextMeeting ==
    <<"u4f60", "u597d", "uff0c", "u4eca", "u5929", "u7684", "u4f1a", "u8bae",
    "u8bae", "u7a0b", "u662f", "u4ec0", "u4e48", "uff1f">>

TextTea ==
    <<"t", "h", "e", " ", "t", "e", "a">>

TextTheSaya ==
    <<"t", "h", "e", " ", "s", "a", "y", "a">>

TextTheSayaDanApa ==
    <<"t", "h", "e", " ", "s", "a", "y", "a", " ", "d", "a", "n", " ", "a", "p",
    "a">>

Texts ==
    {TextEmpty, TextSpaces, TextSigns, TextAgenda, TextMeeting, TextTea,
     TextTheSaya, TextTheSayaDanApa}

OptionsPool ==
    { DefaultOptions,
      [DefaultOptions EXCEPT !.useHistory = FALSE],
      [DefaultOptions EXCEPT !.detectCodeSwitching = FALSE,
                             !.minConfidence = <<9, 10>>] }

----------------------------------------------------------------------------
(* The subtitle exports.  A timestamp is formatted from the local time of  *)
(* day, zone being the offset of local time in milliseconds; a formatted    *)
(* timestamp is a sequence of one-character strings.  An export is the     *)
(* sequence of its cues.                                                    *)

\* n.toString().padStart(2, '0') and padStart(3, '0')
Pad2(n) == <<ToString(n \div 10), ToString(n % 10)>>

Pad3(n) == <<ToString(n \div 100), ToString((n \div 10) % 10), ToString(n % 10)>>

\* getHours, getMinutes, getSeconds, getMilliseconds of new Date(t)
TimeOfDay(t, zone) ==
    LET local == (t + zone) % (24 * 3600000)
    IN  [hours |-> local \div 3600000,
         minutes |-> (local \div 60000) % 60,
         seconds |-> (local \div 1000) % 60,
         milliseconds |-> local % 1000]

formatSRTTimestamp(t, zone) ==
    LET d == TimeOfDay(t, zone)
    IN  Pad2(d.hours) \o <<":">> \o Pad2(d.minutes) \o <<":">> \o Pad2(d.seconds)
            \o <<",">> \o Pad3(d.milliseconds)

formatVTTTimestamp(t, zone) ==
    LET d == TimeOfDay(t, zone)
    IN  Pad2(d.hours) \o <<":">> \o Pad2(d.minutes) \o <<":">> \o Pad2(d.seconds)
            \o <<".">> \o Pad3(d.milliseconds)

Speaker1 == <<"s", "p", "e", "a", "k", "e", "r", "1">>
Speaker2 == <<"s", "p", "e", "a", "k", "e", "r", "2">>

getSpeakerName(speakerId) ==
    IF speakerId = Speaker1 THEN <<"J", "o", "h", "n", " ", "D", "o", "e">>
    ELSE IF speakerId = Speaker2
         THEN <<"J", "a", "n", "e", " ", "S", "m", "i", "t", "h">>
         ELSE speakerId

\* The instant a cue ends at, whatever follows it in the collection.
CueEndOwn(ts, i) == ts[i].timestamp + 3000

\* The instant the cue of entry i ends at.
CueEnd(ts, i) ==
    IF i < Len(ts) THEN ts[i + 1].timestamp - 1000 ELSE ts[i].timestamp + 3000

exportToSRT(ts, options, zone) ==
    [i \in 1..Len(ts) |->
        [index |-> i,
         startTime |-> formatSRTTimestamp(ts[i].timestamp, zone),
         endTime |-> formatSRTTimestamp(CueEnd(ts, i), zone),
         text |-> IF options.includeSpeakerInfo
                  THEN getSpeakerName(ts[i].speakerId) \o <<":", " ">> \o ts[i].content
                  ELSE ts[i].content]]

exportToVTT(ts, options, zone) ==
    [i \in 1..Len(ts) |->
        [startTime |-> formatVTTTimestamp(ts[i].timestamp, zone),
         endTime |-> formatVTTTimestamp(CueEnd(ts, i), zone),
         text |-> IF options.includeSpeakerInfo
                  THEN <<"<", "v", " ">> \o getSpeakerName(ts[i].speakerId)
                           \o <<">">> \o ts[i].content
                  ELSE ts[i].content]]

\* A call that reads the collection and returns out.
Query(op, options, zone, out) ==
    /\ lastQuery' = [op |-> op, options |-> options, zone |-> zone, out |-> out]
    /\ UNCHANGED <<transcripts, undoStack, redoStack, clock, lastCall, edits, firstEdit,
                   preMutation>>
    /\ UNCHANGED <<transVars, detVars, hookVars, audioVars, engineVars, speechVars>>

ExportToSRT(options, zone) ==
    Query("exportToSRT", options, zone, exportToSRT(transcripts, options, zone))

ExportToVTT(options, zone) ==
    Query("exportToVTT", options, zone, exportToVTT(transcripts, options, zone))

----------------------------------------------------------------------------
(* search.  The query is a plain text, so that the regular expression built *)
(* from it matches its occurrences; the expression carries the g flag, and  *)
(* lastIndex is where its next test starts.  An absent speakerId is the     *)
(* empty text, an absent language is "none", and dateRange is a sequence of *)
(* no range or one.                                                         *)

\* \b between the characters k and k + 1 of text.
WordBoundary(text, k) ==
    (k >= 1 /\ IsWordChar(text[k])) # (k < Len(text) /\ IsWordChar(text[k + 1]))

\* The expression matches text at position p.
MatchesAt(options, text, p) ==
    /\ IF options.caseSensitive
       THEN SubSeq(text, p, p + Len(options.query) - 1) = options.query
       ELSE toLowerCase(SubSeq(text, p, p + Len(options.query) - 1))
                = toLowerCase(options.query)
    /\ options.wholeWord
        => /\ WordBoundary(text, p - 1)
           /\ WordBoundary(text, p + Len(options.query) - 1)

\* regex.test(text) with the g flag: what it returns and where it leaves
\* lastIndex.
RegexTest(options, text, lastIndex) ==
    LET starts == {p \in (lastIndex + 1)..(Len(text) - Len(options.query) + 1) :
                      MatchesAt(options, text, p)}
    IN  IF starts = {}
        THEN [found |-> FALSE, lastIndex |-> 0]
        ELSE [found |-> TRUE,
              lastIndex |-> (CHOOSE p \in starts : \A o \in starts : p <= o)
                                - 1 + Len(options.query)]

\* text.replace(regex, '<mark>$&</mark>') from the character after from.
RECURSIVE Marked(_, _, _)
Marked(options, text, from) ==
    LET r == RegexTest(options, text, from)
    IN  IF ~r.found
        THEN SubSeq(text, from + 1, Len(text))
        ELSE SubSeq(text, from + 1, r.lastIndex - Len(options.query))
                \o <<"<mark>">>
                \o SubSeq(text, r.lastIndex - Len(options.query) + 1, r.lastIndex)
                \o <<"</mark>">>
                \o Marked(options, text, r.lastIndex)

\* The loop over the translations, left at the first one that matches.
RECURSIVE TestEach(_, _, _)
TestEach(options, texts, lastIndex) ==
    IF texts = <<>>
    THEN [found |-> FALSE, lastIndex |-> lastIndex]
    ELSE LET r == RegexTest(options, Head(texts), lastIndex)
         IN  IF r.found THEN r ELSE TestEach(options, Tail(texts), r.lastIndex)

\* The three filters of search.
PassesFilters(segment, options) ==
    /\ options.speakerId = <<>> \/ segment.speakerId = options.speakerId
    /\ options.language = "none" \/ segment.primaryLanguage = options.language
    /\ options.dateRange = <<>>
        \/ /\ segment.timestamp >= options.dateRange[1].start
           /\ segment.timestamp <= options.dateRange[1].end

\* The body of the loop of search for one segment that passed the filters:
\* the results and lastIndex after it.
Examine(segment, options, lastIndex, results) ==
    LET c == RegexTest(options, segment.content, lastIndex)
        t == IF options.includeTranslations
             THEN TestEach(options, segment.translations,
                           IF c.found THEN 0 ELSE c.lastIndex)
             ELSE [found |-> FALSE, lastIndex |-> 0]
        sp == RegexTest(options, segment.speakerId, t.lastIndex)
    IN  [lastIndex |-> sp.lastIndex,
         results |->
            IF c.found \/ t.found \/ sp.found
            THEN Append(results,
                    [segmentId |-> segment.id,
                     segment |-> segment,
                     matches |-> [content |-> c.found,
                                  translation |-> t.found,
                                  speaker |-> sp.found],
                     highlightedContent |->
                        IF c.found THEN Marked(options, segment.content, 0)
                        ELSE segment.content])
            ELSE results]

RECURSIVE SearchLoop(_, _, _, _)
SearchLoop(ts, options, lastIndex, results) ==
    IF ts = <<>> THEN results
    ELSE IF ~PassesFilters(Head(ts), options)
         THEN SearchLoop(Tail(ts), options, lastIndex, results)
         ELSE With(Examine(Head(ts), options, lastIndex, results),
                   LAMBDA e : SearchLoop(Tail(ts), options, e.lastIndex, e.results))

search(ts, options) == SearchLoop(ts, options, 0, <<>>)

Search(options) == Query("search", options, 0, search(transcripts, options))

----------------------------------------------------------------------------
(* The language-detection hook (src/unnamed/part_001): its debounced       *)
(* detection.  A timeout is [id, text]: the timeout the id-th call of      *)
(* setTimeout has set, whose callback runs detectLanguage(text).           *)

NoHook == [op |-> "none", text |-> <<>>, scheduled |-> FALSE, debounced |-> <<>>]

\* The options the hook hands to the detector, minConfidence at its default.
HookOptions ==
    [useHistory |-> TRUE, detectCodeSwitching |-> TRUE, minConfidence |-> <<3, 10>>]

\* A step of the hook: op on text; scheduled when it has set a timeout.
\* debounced keeps the text of the last call that has set a timeout.
HookStep(op, text, scheduled) ==
    lastHook' = [op |-> op, text |-> text, scheduled |-> scheduled,
                 debounced |-> IF scheduled THEN <<text>> ELSE lastHook.debounced]

\* clearTimeout(id) of a timer that has fired already changes nothing.
clearTimeoutNothing(pending, id) == pending

clearTimeout(pending, id) == {t \in pending : t.id # id}

\* debouncedDetectLanguage(text)
debouncedDetectLanguage(text) ==
    /\ mounted
    /\ IF ~autoDetectEnabled
       THEN /\ HookStep("debouncedDetectLanguage", text, FALSE)
            /\ UNCHANGED <<debounceTimeoutRef, timers, timerCount>>
       ELSE /\ timers' = (IF debounceTimeoutRef # 0
                          THEN clearTimeout(timers, debounceTimeoutRef)
                          ELSE timers)
                         \cup {[id |-> timerCount + 1, text |-> text]}
            /\ debounceTimeoutRef' = timerCount + 1
            /\ timerCount' = timerCount + 1
            /\ HookStep("debouncedDetectLanguage", text, TRUE)
    /\ UNCHANGED <<autoDetectEnabled, mounted>>
    /\ UNCHANGED <<storeVars, transVars, detVars, audioVars, engineVars, speechVars>>

\* The timeout t is due: its callback runs the hook's detectLanguage.
Timeout(t) ==
    /\ t \in timers
    /\ timers' = timers \ {t}
    /\ DetectorStep(t.text, HookOptions)
    /\ HookStep("timeout", t.text, FALSE)
    /\ UNCHANGED <<autoDetectEnabled, debounceTimeoutRef, timerCount, mounted>>
    /\ UNCHANGED <<storeVars, transVars, audioVars, engineVars, speechVars>>

\* setAutoDetect(enabled)
setAutoDetect(enabled) ==
    /\ mounted
    /\ autoDetectEnabled' = enabled
    /\ HookStep("setAutoDetect", <<>>, FALSE)
    /\ UNCHANGED <<debounceTimeoutRef, timers, timerCount, mounted>>
    /\ UNCHANGED <<storeVars, transVars, detVars, audioVars, engineVars, speechVars>>

\* The component unmounts: the cleanup effect runs.
Unmount ==
    /\ mounted
    /\ mounted' = FALSE
    /\ timers' = IF debounceTimeoutRef # 0
                 THEN clearTimeout(timers, debounceTimeoutRef)
                 ELSE timers
    /\ HookStep("unmount", <<>>, FALSE)
    /\ UNCHANGED <<autoDetectEnabled, debounceTimeoutRef, timerCount>>
    /\ UNCHANGED <<storeVars, transVars, detVars, audioVars, engineVars, speechVars>>

HookInit ==
    /\ autoDetectEnabled = TRUE
    /\ debounceTimeoutRef = 0
    /\ timers = {}
    /\ timerCount = 0
    /\ mounted = TRUE
    /\ lastHook = NoHook

----------------------------------------------------------------------------
(* The audio manager (src/lib/audio-manager.ts).  A metric is <<v>> for    *)
(* the number v / AudioScale, rounded down, and <<>> for NaN.  A sample    *)
(* buffer is a sequence of bytes.  mediaRecorder is <<>> for null and      *)
(* <<r>> for the recorder r: its state, the onstop handler installed, and  *)
(* whether its stop event is queued.  The samples of audioData are random  *)
(* and read by nothing modelled here: they are left out.                   *)

AudioScale == 100

sampleRate == 16000

NaN == <<>>

Zero == <<0>>

NoAudio == [op |-> "none", raised |-> FALSE, settled |-> TRUE, out |-> <<>>]

RECURSIVE SumBytes(_, _, _)
\* data[from] + ... + data[to - 1], indices counted from 0 as in the source
SumBytes(data, from, to) ==
    IF from >= to THEN 0 ELSE data[from + 1] + SumBytes(data, from + 1, to)

RECURSIVE SumSquares(_)
\* the sum of (b - 128)^2 over the buffer
SumSquares(data) ==
    IF data = <<>> THEN 0
    ELSE (Head(data) - 128) * (Head(data) - 128) + SumSquares(Tail(data))

\* Math.sqrt(x), rounded down, of an x up to AudioScale * AudioScale
ISqrt(x) == CHOOSE r \in 0..AudioScale : r * r <= x /\ (r + 1) * (r + 1) > x

MathMin(a, b) == IF a < b THEN a ELSE b

\* calculateVolume: sqrt(sum / length), 0 / 0 being NaN
calculateVolume(timeDomainData) ==
    IF Len(timeDomainData) = 0 THEN NaN
    ELSE <<ISqrt((SumSquares(timeDomainData) * AudioScale * AudioScale)
                    \div (128 * 128 * Len(timeDomainData)))>>

\* estimateAudioQuality: Math.min(1, NaN) is NaN
estimateAudioQuality(frequencyData) ==
    LET length == Len(frequencyData)
        highFreqStart == (length * 7) \div 10
        midFreqStart == (length * 2) \div 10
        midFreqSum == SumBytes(frequencyData, midFreqStart, highFreqStart)
        highFreqSum == SumBytes(frequencyData, highFreqStart, length)
        midCount == highFreqStart - midFreqStart
        highCount == length - highFreqStart
    IN  IF midCount = 0 \/ highCount = 0 THEN NaN
        ELSE <<MathMin(AudioScale,
                     (midFreqSum * (255 * highCount - highFreqSum) * AudioScale)
                        \div (255 * midCount * 255 * highCount))>>

\* estimateBackgroundNoise
estimateBackgroundNoise(frequencyData) ==
    LET lowFreqEnd == Len(frequencyData) \div 10
    IN  IF lowFreqEnd = 0 THEN NaN
        ELSE <<(SumBytes(frequencyData, 0, lowFreqEnd) * AudioScale)
                  \div (lowFreqEnd * 255)>>

Abs(n) == IF n < 0 THEN 0 - n ELSE n

RECURSIVE Correlation(_, _, _)
\* the correlation of the buffer with itself shifted by period, from index i
Correlation(data, period, i) ==
    IF i >= Len(data) - period THEN 0
    ELSE Abs((data[i + 1] - 128) * (data[i + period + 1] - 128))
            + Correlation(data, period, i + 1)

\* estimatePitch: the first period of the greatest correlation above 0.  A
\* period of Len(data) or more has no sample to correlate.
estimatePitch(timeDomainData) ==
    LET periods == {p \in 8..999 : p < Len(timeDomainData)}
        best == {p \in periods :
                    /\ Correlation(timeDomainData, p, 0) > 0
                    /\ \A q \in periods :
                        \/ Correlation(timeDomainData, q, 0)
                              < Correlation(timeDomainData, p, 0)
                        \/ (Correlation(timeDomainData, q, 0)
                              = Correlation(timeDomainData, p, 0) /\ p <= q)}
    IN  IF best = {} THEN Zero
        ELSE <<(sampleRate * AudioScale) \div (CHOOSE p \in best : TRUE)>>

\* getAudioMetrics, the analyser filling dataArray and timeDomainArray
getAudioMetrics(attached, dataArray, timeDomainArray) ==
    IF ~attached
    THEN [volume |-> Zero, frequency |-> <<>>, pitch |-> Zero, quality |-> Zero,
          backgroundNoise |-> Zero]
    ELSE [volume |-> calculateVolume(timeDomainArray),
          frequency |-> [i \in 1..Len(dataArray) |->
                            (dataArray[i] * AudioScale) \div 255],
          pitch |-> estimatePitch(timeDomainArray),
          quality |-> estimateAudioQuality(dataArray),
          backgroundNoise |-> estimateBackgroundNoise(dataArray)]

\* An AudioManager call has finished: it raised or it gave out.  For
\* initialize, out is what it was called with and the step that failed.
AudioDone(op, raised, out) ==
    lastAudio' = [op |-> op, raised |-> raised, settled |-> TRUE, out |-> out]

GetAudioMetrics(dataArray, timeDomainArray) ==
    /\ Len(dataArray) = Len(timeDomainArray)
    /\ AudioDone("getAudioMetrics", FALSE,
                 <<[attached |-> analyser, bufferLength |-> Len(dataArray),
                    metrics |-> getAudioMetrics(analyser, dataArray,
                                                timeDomainArray)]>>)
    /\ UNCHANGED <<mediaRecorder, audioContext, analyser, stream, isRecording,
                   recordedChunks, isTestMode, testInterval, initializing>>
    /\ UNCHANGED <<storeVars, transVars, detVars, hookVars, engineVars, speechVars>>

\* The steps of initialize that can fail, in the order they are taken.
InitSteps ==
    <<"getUserMedia", "AudioContext", "createAnalyser",
      "createMediaStreamSource", "MediaRecorder">>

StepIndex(step) == CHOOSE i \in 1..Len(InitSteps) : InitSteps[i] = step

\* Whether initialize gets past step when failure is the step that fails.
Passed(step, failure) ==
    failure = "none" \/ StepIndex(step) < StepIndex(failure)

NewRecorder == [state |-> "inactive", onstop |-> "log", stopQueued |-> FALSE]

\* initialize(testMode), up to its await or, in test mode, to its end
Initialize(testMode, mediaDevices) ==
    /\ IF testMode \/ ~mediaDevices
       THEN /\ isTestMode' = TRUE
            /\ AudioDone("initialize", FALSE,
                         <<[testMode |-> testMode, mediaDevices |-> mediaDevices,
                            failure |-> "none"]>>)
            /\ UNCHANGED initializing
       ELSE /\ initializing' = initializing + 1
            /\ UNCHANGED <<isTestMode, lastAudio>>
    /\ UNCHANGED <<mediaRecorder, audioContext, analyser, stream, isRecording,
                   recordedChunks, testInterval>>
    /\ UNCHANGED <<storeVars, transVars, detVars, hookVars, engineVars, speechVars>>

\* initialize without its catch: the failure reaches the caller.
InitializeResumesUncaught(failure) ==
    /\ initializing > 0
    /\ initializing' = initializing - 1
    /\ stream' = IF Passed("getUserMedia", failure) THEN TRUE ELSE stream
    /\ audioContext' = IF Passed("AudioContext", failure) THEN TRUE
                       ELSE audioContext
    /\ analyser' = IF Passed("createAnalyser", failure) THEN TRUE ELSE analyser
    /\ mediaRecorder' = IF Passed("MediaRecorder", failure) THEN <<NewRecorder>>
                        ELSE mediaRecorder
    /\ UNCHANGED isTestMode
    /\ AudioDone("initialize", failure # "none",
                 <<[testMode |-> FALSE, mediaDevices |-> TRUE,
                    failure |-> failure]>>)
    /\ UNCHANGED <<isRecording, recordedChunks, testInterval>>
    /\ UNCHANGED <<storeVars, transVars, detVars, hookVars, engineVars, speechVars>>

\* initialize from its await on: getUserMedia has settled, failure is the
\* step that throws or rejects, "none" when all succeed.
InitializeResumes(failure) ==
    /\ initializing > 0
    /\ initializing' = initializing - 1
    /\ stream' = IF Passed("getUserMedia", failure) THEN TRUE ELSE stream
    /\ audioContext' = IF Passed("AudioContext", failure) THEN TRUE
                       ELSE audioContext
    /\ analyser' = IF Passed("createAnalyser", failure) THEN TRUE ELSE analyser
    /\ mediaRecorder' = IF Passed("MediaRecorder", failure) THEN <<NewRecorder>>
                        ELSE mediaRecorder
    /\ isTestMode' = IF failure # "none" THEN TRUE ELSE isTestMode
    /\ AudioDone("initialize", FALSE,
                 <<[testMode |-> FALSE, mediaDevices |-> TRUE,
                    failure |-> failure]>>)
    /\ UNCHANGED <<isRecording, recordedChunks, testInterval>>
    /\ UNCHANGED <<storeVars, transVars, detVars, hookVars, engineVars, speechVars>>

\* startRecording.  MediaRecorder.start raises on a recorder that is not
\* inactive.
StartRecording ==
    /\ IF isRecording
       THEN UNCHANGED <<isRecording, testInterval, recordedChunks, mediaRecorder>>
       ELSE IF isTestMode
       THEN /\ isRecording' = TRUE
            /\ testInterval' = TRUE
            /\ UNCHANGED <<recordedChunks, mediaRecorder>>
       ELSE IF mediaRecorder = <<>>
       THEN UNCHANGED <<isRecording, testInterval, recordedChunks, mediaRecorder>>
       ELSE /\ recordedChunks' = <<>>
            /\ IF mediaRecorder[1].state = "inactive"
               THEN /\ mediaRecorder' =
                            <<[mediaRecorder[1] EXCEPT !.state = "recording"]>>
                    /\ isRecording' = TRUE
               ELSE UNCHANGED <<mediaRecorder, isRecording>>
            /\ UNCHANGED testInterval
    /\ AudioDone("startRecording",
                 /\ ~isRecording
                 /\ ~isTestMode
                 /\ mediaRecorder # <<>>
                 /\ mediaRecorder[1].state # "inactive",
                 <<>>)
    /\ UNCHANGED <<audioContext, analyser, stream, isTestMode, initializing>>
    /\ UNCHANGED <<storeVars, transVars, detVars, hookVars, engineVars, speechVars>>

\* The blob of the test mode: 'dummy audio data'.
DummyBlob == [size |-> 16, type |-> "audio/webm"]

\* stopRecording: what its promise resolves with is out, <<>> for null; in
\* live mode the promise stays pending until the recorder's stop event.
StopRecording ==
    /\ IF ~isRecording
       THEN /\ AudioDone("stopRecording", FALSE, <<>>)
            /\ UNCHANGED <<isRecording, testInterval, mediaRecorder>>
       ELSE IF isTestMode
       THEN /\ testInterval' = FALSE
            /\ isRecording' = FALSE
            /\ AudioDone("stopRecording", FALSE, <<DummyBlob>>)
            /\ UNCHANGED mediaRecorder
       ELSE IF mediaRecorder = <<>>
       THEN /\ AudioDone("stopRecording", FALSE, <<>>)
            /\ UNCHANGED <<isRecording, testInterval, mediaRecorder>>
       ELSE /\ mediaRecorder' =
                    <<[state |-> "inactive", onstop |-> "resolve",
                       stopQueued |-> \/ mediaRecorder[1].stopQueued
                                      \/ mediaRecorder[1].state = "recording"]>>
            /\ lastAudio' = [op |-> "stopRecording", raised |-> FALSE,
                             settled |-> FALSE, out |-> <<>>]
            /\ UNCHANGED <<isRecording, testInterval>>
    /\ UNCHANGED <<audioContext, analyser, stream, recordedChunks, isTestMode,
                   initializing>>
    /\ UNCHANGED <<storeVars, transVars, detVars, hookVars, engineVars, speechVars>>

\* ondataavailable: the recorder hands over a blob of the given size.
DataAvailable(size) ==
    /\ mediaRecorder # <<>>
    /\ mediaRecorder[1].state = "recording" \/ mediaRecorder[1].stopQueued
    /\ recordedChunks' = IF size > 0 THEN Append(recordedChunks, size)
                         ELSE recordedChunks
    /\ UNCHANGED <<mediaRecorder, audioContext, analyser, stream, isRecording,
                   isTestMode, testInterval, initializing, lastAudio>>
    /\ UNCHANGED <<storeVars, transVars, detVars, hookVars, engineVars, speechVars>>

\* The recorder's stop event: the onstop handler installed runs.
StopEvent ==
    /\ mediaRecorder # <<>>
    /\ mediaRecorder[1].stopQueued
    /\ mediaRecorder' = <<[mediaRecorder[1] EXCEPT !.stopQueued = FALSE]>>
    /\ IF mediaRecorder[1].onstop = "resolve"
       THEN /\ recordedChunks' = <<>>
            /\ isRecording' = FALSE
            /\ AudioDone("stopRecording", FALSE,
                         <<[size |-> SumBytes(recordedChunks, 0,
                                              Len(recordedChunks)),
                            type |-> "supported"]>>)
       ELSE UNCHANGED <<recordedChunks, isRecording, lastAudio>>
    /\ UNCHANGED <<audioContext, analyser, stream, isTestMode, testInterval,
                   initializing>>
    /\ UNCHANGED <<storeVars, transVars, detVars, hookVars, engineVars, speechVars>>

\* destroy.  The stop event of the recorder it stops and drops is not
\* followed further.
Destroy ==
    /\ testInterval' = FALSE
    /\ stream' = FALSE
    /\ audioContext' = FALSE
    /\ mediaRecorder' = <<>>
    /\ isTestMode' = FALSE
    /\ analyser' = FALSE
    /\ isRecording' = FALSE
    /\ AudioDone("destroy", FALSE, <<>>)
    /\ UNCHANGED <<recordedChunks, initializing>>
    /\ UNCHANGED <<storeVars, transVars, detVars, hookVars, engineVars, speechVars>>

AudioInit ==
    /\ mediaRecorder = <<>>
    /\ audioContext = FALSE
    /\ analyser = FALSE
    /\ stream = FALSE
    /\ isRecording = FALSE
    /\ recordedChunks = <<>>
    /\ isTestMode = FALSE
    /\ testInterval = FALSE
    /\ initializing = 0
    /\ lastAudio = NoAudio

----------------------------------------------------------------------------
(* The offline engine read character by character                          *)
(* (src/lib/translation-service.ts, OfflineTranslationEngine): a text is a *)
(* sequence of characters, a confidence a number of hundredths.            *)
(* OfflineTranslate above is the same method on texts cut into tokens.     *)

\* The characters of the tables and the adaptation rules in u4e00..u9fff.
DictionaryCjk == {
    "u4e0d", "u4eca", "u4efb", "u4f1a", "u4f5c", "u4f60", "u518d", "u51b3",
    "u5212", "u52a1", "u56e2", "u5929", "u597d", "u59cb", "u5b8c", "u5b9a",
    "u5bf9", "u5de5", "u5f00", "u6210", "u660e", "u662f", "u675f", "u7684",
    "u76ee", "u7a0b", "u7ed3", "u89c1", "u8ba1", "u8ba8", "u8bae", "u8bba",
    "u8c22", "u8d77", "u961f", "u9879", "u8001", "u677f", "u5e08", "u5085"}

\* dictionaries['zh-en'], the entries in their order
TableZhEn ==
    <<<<<<"u4f60", "u597d">>, <<"h", "e", "l", "l", "o">>>>,
      <<<<"u518d", "u89c1">>, <<"g", "o", "o", "d", "b", "y", "e">>>>,
      <<<<"u8c22", "u8c22">>,
        <<"t", "h", "a", "n", "k", " ", "y", "o", "u">>>>,
      <<<<"u5bf9", "u4e0d", "u8d77">>, <<"s", "o", "r", "r", "y">>>>,
      <<<<"u662f", "u7684">>, <<"y", "e", "s">>>>,
      <<<<"u4e0d", "u662f">>, <<"n", "o">>>>,
      <<<<"u4f1a", "u8bae">>, <<"m", "e", "e", "t", "i", "n", "g">>>>,
      <<<<"u8bae", "u7a0b">>, <<"a", "g", "e", "n", "d", "a">>>>,
      <<<<"u4eca", "u5929">>, <<"t", "o", "d", "a", "y">>>>,
      <<<<"u660e", "u5929">>, <<"t", "o", "m", "o", "r", "r", "o", "w">>>>,
      <<<<"u9879", "u76ee">>, <<"p", "r", "o", "j", "e", "c", "t">>>>,
      <<<<"u56e2", "u961f">>, <<"t", "e", "a", "m">>>>,
      <<<<"u5de5", "u4f5c">>, <<"w", "o", "r", "k">>>>,
      <<<<"u4efb", "u52a1">>, <<"t", "a", "s", "k">>>>,
      <<<<"u5b8c", "u6210">>, <<"c", "o", "m", "p", "l", "e", "t", "e">>>>,
      <<<<"u5f00", "u59cb">>, <<"s", "t", "a", "r", "t">>>>,
      <<<<"u7ed3", "u675f">>, <<"e", "n", "d">>>>,
      <<<<"u8ba8", "u8bba">>, <<"d", "i", "s", "c", "u", "s", "s">>>>,
      <<<<"u51b3", "u5b9a">>, <<"d", "e", "c", "i", "d", "e">>>>,
      <<<<"u8ba1", "u5212">>, <<"p", "l", "a", "n">>>>>>

\* dictionaries['en-zh'], the entries in their order
TableEnZh ==
    <<<<<<"h", "e", "l", "l", "o">>, <<"u4f60", "u597d">>>>,
      <<<<"g", "o", "o", "d", "b", "y", "e">>, <<"u518d", "u89c1">>>>,
      <<<<"t", "h", "a", "n", "k", " ", "y", "o", "u">>,
        <<"u8c22", "u8c22">>>>,
      <<<<"s", "o", "r", "r", "y">>, <<"u5bf9", "u4e0d", "u8d77">>>>,
      <<<<"y", "e", "s">>, <<"u662f", "u7684">>>>,
      <<<<"n", "o">>, <<"u4e0d", "u662f">>>>,
      <<<<"m", "e", "e", "t", "i", "n", "g">>, <<"u4f1a", "u8bae">>>>,
      <<<<"a", "g", "e", "n", "d", "a">>, <<"u8bae", "u7a0b">>>>,
      <<<<"t", "o", "d", "a", "y">>, <<"u4eca", "u5929">>>>,
      <<<<"t", "o", "m", "o", "r", "r", "o", "w">>, <<"u660e", "u5929">>>>,
      <<<<"p", "r", "o", "j", "e", "c", "t">>, <<"u9879", "u76ee">>>>,
      <<<<"t", "e", "a", "m">>, <<"u56e2", "u961f">>>>,
      <<<<"w", "o", "r", "k">>, <<"u5de5", "u4f5c">>>>,
      <<<<"t", "a", "s", "k">>, <<"u4efb", "u52a1">>>>,
      <<<<"c", "o", "m", "p", "l", "e", "t", "e">>, <<"u5b8c", "u6210">>>>,
      <<<<"s", "t", "a", "r", "t">>, <<"u5f00", "u59cb">>>>,
      <<<<"e", "n", "d">>, <<"u7ed3", "u675f">>>>,
      <<<<"d", "i", "s", "c", "u", "s", "s">>, <<"u8ba8", "u8bba">>>>,
      <<<<"d", "e", "c", "i", "d", "e">>, <<"u51b3", "u5b9a">>>>,
      <<<<"p", "l", "a", "n">>, <<"u8ba1", "u5212">>>>>>

\* dictionaries['ms-en'], the entries in their order
TableMsEn ==
    <<<<<<"s", "e", "l", "a", "m", "a", "t", " ", "p", "a", "g", "i">>,
        <<"g", "o", "o", "d", " ", "m", "o", "r", "n", "i", "n", "g">>>>,
      <<<<"s", "e", "l", "a", "m", "a", "t", " ", "p", "e", "t", "a", "n", "g">>,
        <<"g", "o", "o", "d", " ", "a", "f", "t", "e", "r", "n", "o", "o", "n">>>>,
      <<<<"t", "e", "r", "i", "m", "a", " ", "k", "a", "s", "i", "h">>,
        <<"t", "h", "a", "n", "k", " ", "y", "o", "u">>>>,
      <<<<"m", "a", "a", "f">>, <<"s", "o", "r", "r", "y">>>>,
      <<<<"y", "a">>, <<"y", "e", "s">>>>,
      <<<<"t", "i", "d", "a", "k">>, <<"n", "o">>>>,
      <<<<"m", "e", "s", "y", "u", "a", "r", "a", "t">>,
        <<"m", "e", "e", "t", "i", "n", "g">>>>,
      <<<<"a", "g", "e", "n", "d", "a">>, <<"a", "g", "e", "n", "d", "a">>>>,
      <<<<"h", "a", "r", "i", " ", "i", "n", "i">>,
        <<"t", "o", "d", "a", "y">>>>,
      <<<<"e", "s", "o", "k">>, <<"t", "o", "m", "o", "r", "r", "o", "w">>>>,
      <<<<"p", "r", "o", "j", "e", "k">>,
        <<"p", "r", "o", "j", "e", "c", "t">>>>,
      <<<<"p", "a", "s", "u", "k", "a", "n">>, <<"t", "e", "a", "m">>>>,
      <<<<"k", "e", "r", "j", "a">>, <<"w", "o", "r", "k">>>>,
      <<<<"t", "u", "g", "a", "s", "a", "n">>, <<"t", "a", "s", "k">>>>,
      <<<<"s", "i", "a", "p">>, <<"c", "o", "m", "p", "l", "e", "t", "e">>>>,
      <<<<"m", "u", "l", "a">>, <<"s", "t", "a", "r", "t">>>>,
      <<<<"t", "a", "m", "a", "t">>, <<"e", "n", "d">>>>>>

\* dictionaries['en-ms'], the entries in their order
TableEnMs ==
    <<<<<<"g", "o", "o", "d", " ", "m", "o", "r", "n", "i", "n", "g">>,
        <<"s", "e", "l", "a", "m", "a", "t", " ", "p", "a", "g", "i">>>>,
      <<<<"g", "o", "o", "d", " ", "a", "f", "t", "e", "r", "n", "o", "o", "n">>,
        <<"s", "e", "l", "a", "m", "a", "t", " ", "p", "e", "t", "a", "n", "g">>>>,
      <<<<"t", "h", "a", "n", "k", " ", "y", "o", "u">>,
        <<"t", "e", "r", "i", "m", "a", " ", "k", "a", "s", "i", "h">>>>,
      <<<<"s", "o", "r", "r", "y">>, <<"m", "a", "a", "f">>>>,
      <<<<"y", "e", "s">>, <<"y", "a">>>>,
      <<<<"n", "o">>, <<"t", "i", "d", "a", "k">>>>,
      <<<<"m", "e", "e", "t", "i", "n", "g">>,
        <<"m", "e", "s", "y", "u", "a", "r", "a", "t">>>>,
      <<<<"a", "g", "e", "n", "d", "a">>, <<"a", "g", "e", "n", "d", "a">>>>,
      <<<<"t", "o", "d", "a", "y">>,
        <<"h", "a", "r", "i", " ", "i", "n", "i">>>>,
      <<<<"t", "o", "m", "o", "r", "r", "o", "w">>, <<"e", "s", "o", "k">>>>,
      <<<<"p", "r", "o", "j", "e", "c", "t">>,
        <<"p", "r", "o", "j", "e", "k">>>>,
      <<<<"t", "e", "a", "m">>, <<"p", "a", "s", "u", "k", "a", "n">>>>,
      <<<<"w", "o", "r", "k">>, <<"k", "e", "r", "j", "a">>>>,
      <<<<"t", "a", "s", "k">>, <<"t", "u", "g", "a", "s", "a", "n">>>>,
      <<<<"c", "o", "m", "p", "l", "e", "t", "e">>, <<"s", "i", "a", "p">>>>,
      <<<<"s", "t", "a", "r", "t">>, <<"m", "u", "l", "a">>>>,
      <<<<"e", "n", "d">>, <<"t", "a", "m", "a", "t">>>>>>

\* dictionaries['zh-ms'], the entries in their order
TableZhMs ==
    <<<<<<"u4f60", "u597d">>,
        <<"h", "e", "l", "l", "o", " ", "/", " ", "h", "a", "i">>>>,
      <<<<"u8c22", "u8c22">>,
        <<"t", "e", "r", "i", "m", "a", " ", "k", "a", "s", "i", "h">>>>,
      <<<<"u4f1a", "u8bae">>,
        <<"m", "e", "s", "y", "u", "a", "r", "a", "t">>>>,
      <<<<"u4eca", "u5929">>, <<"h", "a", "r", "i", " ", "i", "n", "i">>>>,
      <<<<"u9879", "u76ee">>, <<"p", "r", "o", "j", "e", "k">>>>,
      <<<<"u5de5", "u4f5c">>, <<"k", "e", "r", "j", "a">>>>>>

\* dictionaries['ms-zh'], the entries in their order
TableMsZh ==
    <<<<<<"t", "e", "r", "i", "m", "a", " ", "k", "a", "s", "i", "h">>,
        <<"u8c22", "u8c22">>>>,
      <<<<"m", "e", "s", "y", "u", "a", "r", "a", "t">>,
        <<"u4f1a", "u8bae">>>>,
      <<<<"h", "a", "r", "i", " ", "i", "n", "i">>, <<"u4eca", "u5929">>>>,
      <<<<"p", "r", "o", "j", "e", "k">>, <<"u9879", "u76ee">>>>,
      <<<<"k", "e", "r", "j", "a">>, <<"u5de5", "u4f5c">>>>>>

\* dictionaries
dictionaries ==
    (<<"zh", "en">> :> TableZhEn)
    @@ (<<"en", "zh">> :> TableEnZh)
    @@ (<<"ms", "en">> :> TableMsEn)
    @@ (<<"en", "ms">> :> TableEnMs)
    @@ (<<"zh", "ms">> :> TableZhMs)
    @@ (<<"ms", "zh">> :> TableMsZh)

\* The result record of translate; alternatives is always empty.
OfflineResult(text, confidence, source, notes, adaptations, time) ==
    [translatedText |-> text, confidence |-> confidence,
     detectedSourceLanguage |-> source, alternatives |-> <<>>,
     contextualNotes |-> notes, culturalAdaptations |-> adaptations,
     processingTime |-> time]

ParticleYang == <<"y", "a", "n", "g">>

ParticleDan == <<"d", "a", "n">>

ParticleAtau == <<"a", "t", "a", "u">>

ParticleDengan == <<"d", "e", "n", "g", "a", "n">>

ParticleIni == <<"i", "n", "i">>

ParticleItu == <<"i", "t", "u">>

\* OfflineTranslationEngine.detectLanguage
offlineDetectLanguage(text) ==
    IF \E i \in 1..Len(text) : text[i] \in DictionaryCjk \cup CjkChars THEN "zh"
    ELSE IF \E particle \in {ParticleYang, ParticleDan, ParticleAtau,
                             ParticleDengan, ParticleIni, ParticleItu} :
            \E i \in 1..(Len(text) - Len(particle) + 1) :
                /\ toLowerCase(SubSeq(text, i, i + Len(particle) - 1)) = particle
                /\ WordBoundary(text, i - 1)
                /\ WordBoundary(text, i + Len(particle) - 1)
    THEN "ms"
    ELSE "en"

\* text.replace(new RegExp(source, 'gi'), target): every occurrence, from the
\* left, those overlapping one already replaced left out.
RECURSIVE ReplaceAll(_, _, _)
ReplaceAll(text, source, target) ==
    IF Len(text) < Len(source) THEN text
    ELSE IF toLowerCase(SubSeq(text, 1, Len(source))) = source
    THEN target \o ReplaceAll(SubSeq(text, Len(source) + 1, Len(text)),
                              source, target)
    ELSE <<Head(text)>> \o ReplaceAll(Tail(text), source, target)

\* The loop over dictionary.entries() with 0.1 added for a term in the text.
RECURSIVE SubstituteTenth(_, _, _, _)
SubstituteTenth(entries, translatedText, confidence, substituted) ==
    IF entries = <<>>
    THEN [translatedText |-> translatedText, confidence |-> confidence,
          substituted |-> substituted]
    ELSE IF Includes(translatedText, toLowerCase(Head(entries)[1]))
    THEN SubstituteTenth(Tail(entries),
                    ReplaceAll(translatedText, toLowerCase(Head(entries)[1]),
                               Head(entries)[2]),
                    confidence + 10, Append(substituted, Head(entries)[1]))
    ELSE SubstituteTenth(Tail(entries), translatedText, confidence, substituted)

\* The loop over dictionary.entries(): the text and the confidence it leaves,
\* and the terms it has replaced.
RECURSIVE Substitute(_, _, _, _)
Substitute(entries, translatedText, confidence, substituted) ==
    IF entries = <<>>
    THEN [translatedText |-> translatedText, confidence |-> confidence,
          substituted |-> substituted]
    ELSE IF Includes(translatedText, toLowerCase(Head(entries)[1]))
    THEN Substitute(Tail(entries),
                    ReplaceAll(translatedText, toLowerCase(Head(entries)[1]),
                               Head(entries)[2]),
                    confidence + 20, Append(substituted, Head(entries)[1]))
    ELSE Substitute(Tail(entries), translatedText, confidence, substituted)

\* capitalizeFirstLetter
capitalizeFirstLetter(text) ==
    IF text = <<>> THEN text
    ELSE IF \E upper \in DOMAIN UpperToLower : UpperToLower[upper] = text[1]
    THEN <<CHOOSE upper \in DOMAIN UpperToLower : UpperToLower[upper] = text[1]>>
            \o Tail(text)
    ELSE text

\* getCulturalAdaptations: which of its three notes it gives
getCulturalAdaptations(text, from, to) ==
    (IF from = "zh" /\ to = "en" /\ Includes(text, <<"u8001", "u677f">>)
     THEN <<"manager">> ELSE <<>>)
    \o (IF from = "zh" /\ to = "en" /\ Includes(text, <<"u5e08", "u5085">>)
        THEN <<"expert">> ELSE <<>>)
    \o (IF /\ from = "en"
           /\ to = "ms"
           /\ \/ Includes(text, <<"s", "i", "r">>)
              \/ Includes(text, <<"m", "a", "d", "a", "m">>)
        THEN <<"encik">> ELSE <<>>)

\* OfflineTranslationEngine.translate: what the promise settles with, and the
\* terms the loop has replaced.  With no table for the pair the try block
\* throws, and its catch block reads `text`, declared inside the try block.
offlineTranslate(request, time) ==
    LET sourceLanguage == IF request.from = "auto"
                          THEN offlineDetectLanguage(request.text)
                          ELSE request.from
    IN  IF <<sourceLanguage, request.to>> \notin DOMAIN dictionaries
        THEN [kind |-> "error", error |-> "ReferenceError", substituted |-> <<>>,
              result |-> OfflineResult(<<>>, 0, "undefined", <<>>, <<>>, 0)]
        ELSE With(Substitute(dictionaries[<<sourceLanguage, request.to>>],
                             toLowerCase(request.text), 30, <<>>),
                  LAMBDA loop :
                    [kind |-> "ok", error |-> "none",
                     substituted |-> loop.substituted,
                     result |->
                        OfflineResult(
                            capitalizeFirstLetter(
                                IF loop.confidence <= 30
                                THEN <<"[">> \o request.text \o <<"]">>
                                ELSE loop.translatedText),
                            Min(IF loop.confidence <= 30 THEN 10
                                ELSE loop.confidence, 100),
                            sourceLanguage,
                            IF loop.confidence <= 30 THEN <<"kept">> ELSE <<>>,
                            getCulturalAdaptations(request.text, sourceLanguage,
                                                   request.to),
                            time)])

NoOffline ==
    [op |-> "none", request |-> Req(<<>>, "auto", "en"), kind |-> "none",
     error |-> "none", substituted |-> <<>>,
     result |-> OfflineResult(<<>>, 0, "undefined", <<>>, <<>>, 0)]

\* A call of the offline engine's translate that took time.
OfflineEngineTranslate(request, time) ==
    /\ offline' = [op |-> "translate", request |-> request]
                    @@ offlineTranslate(request, time)
    /\ UNCHANGED <<storeVars, transVars, detVars, hookVars, audioVars, speechVars>>

EngineInit == offline = NoOffline

----------------------------------------------------------------------------
(* The speech recognition manager (src/lib/speech-recognition.ts) over the *)
(* Web Speech engine.  recognition is the state of the platform's          *)
(* recognizer: "idle", "starting" once start() is called, "listening" from *)
(* its start event on, "stopping" once stop() or abort() is called; its    *)
(* end event brings it back to "idle".  Results and errors are handed to   *)
(* the caller's callbacks and change nothing here: they are left out.      *)

NoSpeech == [op |-> "none", wasActive |-> FALSE]

SpeechStep(op) == lastSpeech' = [op |-> op, wasActive |-> isActive]

\* WebSpeechEngine.start: recognition.start() raises on a recognizer that is
\* not idle, and the catch hands the error to the callback.
EngineStart ==
    IF ~isListening /\ recognition = "idle"
    THEN /\ recognition' = "starting"
         /\ engineStarts' = engineStarts + 1
    ELSE UNCHANGED <<recognition, engineStarts>>

\* SpeechRecognitionManager.start
SpeechStart ==
    /\ IF speechEngine /\ ~isActive
       THEN /\ isActive' = TRUE
            /\ EngineStart
       ELSE UNCHANGED <<isActive, recognition, engineStarts>>
    /\ SpeechStep("start")
    /\ UNCHANGED <<speechEngine, continuous, isListening, restarts>>
    /\ UNCHANGED <<storeVars, transVars, detVars, hookVars, audioVars,
                   engineVars>>

\* SpeechRecognitionManager.stop over WebSpeechEngine.stop
SpeechStop ==
    /\ IF speechEngine /\ isActive
       THEN /\ isActive' = FALSE
            /\ recognition' = IF isListening /\ recognition = "listening"
                              THEN "stopping" ELSE recognition
       ELSE UNCHANGED <<isActive, recognition>>
    /\ SpeechStep("stop")
    /\ UNCHANGED <<speechEngine, continuous, isListening, restarts, engineStarts>>
    /\ UNCHANGED <<storeVars, transVars, detVars, hookVars, audioVars,
                   engineVars>>

\* SpeechRecognitionManager.abort over WebSpeechEngine.abort, and destroy
\* when the engine is dropped after it.
SpeechAbort(dropEngine) ==
    /\ IF speechEngine
       THEN /\ isActive' = FALSE
            /\ recognition' = IF recognition = "idle" THEN "idle" ELSE "stopping"
            /\ isListening' = FALSE
       ELSE UNCHANGED <<isActive, recognition, isListening>>
    /\ speechEngine' = (speechEngine /\ ~dropEngine)
    /\ SpeechStep(IF dropEngine THEN "destroy" ELSE "abort")
    /\ UNCHANGED <<continuous, restarts, engineStarts>>
    /\ UNCHANGED <<storeVars, transVars, detVars, hookVars, audioVars,
                   engineVars>>

\* recognition.onstart
StartEvent ==
    /\ recognition = "starting"
    /\ recognition' = "listening"
    /\ isListening' = TRUE
    /\ SpeechStep("onstart")
    /\ UNCHANGED <<speechEngine, continuous, isActive, restarts, engineStarts>>
    /\ UNCHANGED <<storeVars, transVars, detVars, hookVars, audioVars,
                   engineVars>>

\* The manager's onEnd callback: isActive is cleared, then tested.
OnEnd ==
    /\ isActive' = FALSE
    /\ restarts' = IF continuous /\ isActive' THEN restarts + 1 ELSE restarts

\* recognition.onend: the recognizer has ended, of itself or as asked.
EndEvent ==
    /\ recognition # "idle"
    /\ recognition' = "idle"
    /\ isListening' = FALSE
    /\ OnEnd
    /\ SpeechStep("onend")
    /\ UNCHANGED <<speechEngine, continuous, engineStarts>>
    /\ UNCHANGED <<storeVars, transVars, detVars, hookVars, audioVars,
                   engineVars>>

\* The timeout of onEnd is due: setTimeout(() => this.start(), 100).
RestartTimeout ==
    /\ restarts > 0
    /\ restarts' = restarts - 1
    /\ IF speechEngine /\ ~isActive
       THEN /\ isActive' = TRUE
            /\ EngineStart
       ELSE UNCHANGED <<isActive, recognition, engineStarts>>
    /\ SpeechStep("restart")
    /\ UNCHANGED <<speechEngine, continuous, isListening>>
    /\ UNCHANGED <<storeVars, transVars, detVars, hookVars, audioVars,
                   engineVars>>

\* The manager as constructed: with the engine when the platform has one
\* (speechEngine), in the mode of its config (continuous).
SpeechInit ==
    /\ speechEngine \in BOOLEAN
    /\ continuous \in BOOLEAN
    /\ isActive = FALSE
    /\ isListening = FALSE
    /\ recognition = "idle"
    /\ restarts = 0
    /\ engineStarts = 0
    /\ lastSpeech = NoSpeech

\* The manager of a platform with an engine, in continuous mode, not started.
SpeechUnused ==
    /\ speechEngine = TRUE
    /\ continuous = TRUE
    /\ isActive = FALSE
    /\ isListening = FALSE
    /\ recognition = "idle"
    /\ restarts = 0
    /\ engineStarts = 0
    /\ lastSpeech = NoSpeech

----------------------------------------------------------------------------
(* The store driven by any caller, within the bounds. *)

StoreInit ==
    /\ transcripts \in InitialCollections
    /\ undoStack = <<>>
    /\ redoStack = <<>>
    /\ clock = 0
    /\ lastCall = NoCall
    /\ edits = 0
    /\ firstEdit = <<>>
    /\ preMutation = <<>>
    /\ lastQuery = NoQuery
    /\ TransInit
    /\ DetInit
    /\ HookInit
    /\ AudioInit
    /\ EngineInit
    /\ SpeechUnused

IdsInUse == {transcripts[i].id : i \in 1..Len(transcripts)} \cup {<<"b">>}

IdLists ==
    {<<i>> : i \in IdsInUse} \cup {<<i, j>> : i \in IdsInUse, j \in IdsInUse}

StoreAdd ==
    /\ edits < MaxStoreEdits
    /\ Len(transcripts) < MaxSegs
    /\ \/ \E s \in SegmentPool : AddSegment(s)
       \/ \E segs \in {<<>>, <<SegC, SegA>>} : AddSegments(segs)

StoreEdit ==
    /\ edits < MaxStoreEdits
    /\ \/ \E i \in IdsInUse, u \in UpdatePool : UpdateSegment(i, u)
       \/ \E i \in IdsInUse : DeleteSegment(i)
       \/ \E ids \in IdLists, now \in 0..MaxClock : MergeSegments(ids, now)
       \/ \E i \in IdsInUse, k \in 0..3 : SplitSegment(i, k)

StoreReplace ==
    /\ edits < MaxStoreEdits
    /\ \/ Clear
       \/ \E ts \in {<<SegC>>} : SetTranscripts(ts)

StoreNext == StoreAdd \/ StoreEdit \/ StoreReplace \/ Undo \/ Redo

SpecStore == StoreInit /\ [][StoreNext]_vars

----------------------------------------------------------------------------
(* The store driven through one fixed editing session, repeated: each edit   *)
(* is the one the session makes on the collection as it stands, and it is    *)
(* made only when nothing is left to redo.  Undo and redo are free.          *)

Ids(ts) == [i \in 1..Len(ts) |-> ts[i].id]

MergedId == <<"merged", ToString(clock)>>

SessionEdit ==
    /\ edits < MaxEdits
    /\ redoStack = <<>>
    /\ \/ Ids(transcripts) = <<>> /\ AddSegment(SegA)
       \/ Ids(transcripts) = <<SegA.id>> /\ AddSegments(<<SegB, SegC>>)
       \/ /\ Ids(transcripts) = <<SegA.id, SegB.id, SegC.id>>
          /\ transcripts[2] = SegB
          /\ UpdateSegment(SegB.id, [content |-> <<"y", " ", "z">>])
       \/ /\ Ids(transcripts) = <<SegA.id, SegB.id, SegC.id>>
          /\ transcripts[2] # SegB
          /\ DeleteSegment(SegC.id)
       \/ /\ Ids(transcripts) = <<SegA.id, SegB.id>>
          /\ MergeSegments(<<SegA.id, SegB.id>>, clock)
       \/ Ids(transcripts) = <<MergedId>> /\ SplitSegment(MergedId, 2)
       \/ /\ Ids(transcripts) = <<Append(MergedId, "1"), Append(MergedId, "2")>>
          /\ SetTranscripts(<<SegC>>)
       \/ Ids(transcripts) \in {<<SegC.id>>, <<SegB.id>>} /\ Clear

SessionNext == SessionEdit \/ Undo \/ Redo

SpecSession == StoreInit /\ [][SessionNext]_vars

----------------------------------------------------------------------------
(* The orchestrator and the hook driven by any callers, within the bounds.  *)

StoreUnused ==
    /\ transcripts = <<>>
    /\ undoStack = <<>>
    /\ redoStack = <<>>
    /\ clock = 0
    /\ lastCall = NoCall
    /\ edits = 0
    /\ firstEdit = <<>>
    /\ preMutation = <<>>
    /\ lastQuery = NoQuery

TranslateInit ==
    /\ StoreUnused /\ TransInit /\ DetInit /\ HookInit /\ AudioInit /\ EngineInit
    /\ SpeechUnused

SpecTranslate == TranslateInit /\ [][TransNext]_vars

----------------------------------------------------------------------------
(* The orchestrator driven by a caller that fills the cache: it asks for a  *)
(* text it has not asked for before, in a fixed order, once its earlier     *)
(* calls have all returned, and while that call is pending it asks once     *)
(* more for the oldest text in the cache.                                   *)

MaxFill == 102          \* distinct texts a filling caller asks for

FillReq(n) == Req(<<ToString(n)>>, "en", "ms")

Busy(e) == execs[e].pc \in {"probePreferred", "probe", "translating", "fallback"}

NextFresh ==
    IF cache = <<>> THEN 1
    ELSE 1 + CHOOSE n \in 1..MaxFill :
                 cache[Len(cache)].key = getCacheKey(FillReq(n))

FillChoices ==
    LET fresh == IF (\A e \in Slots : execs[e].pc = "idle") /\ NextFresh <= MaxFill
                 THEN {FillReq(NextFresh)} ELSE {}
        again == IF /\ cache # <<>>
                    /\ \E e \in Slots : Busy(e)
                    /\ \A e \in Slots : ~execs[e].hit
                 THEN {r \in {FillReq(n) : n \in 1..MaxFill} :
                          getCacheKey(r) = cache[1].key}
                 ELSE {}
    IN  fresh \cup again

FillCall ==
    /\ \E r \in FillChoices : HookTranslate(r)
    /\ UNCHANGED <<storeVars, detVars, hookVars, audioVars, engineVars, speechVars>>

\* The caller has its answer and drops the call.
SlotRelease ==
    /\ \E e \in Slots :
          /\ execs[e].closed
          /\ execs' = [execs EXCEPT ![e] = Idle]
    /\ UNCHANGED <<cache, preferredEngine, requestQueue, batch, lastSuccess,
                   adopted, isTranslating>>
    /\ UNCHANGED <<storeVars, detVars, hookVars, audioVars, engineVars, speechVars>>

FillNext == FillCall \/ SelectStep \/ EngineStep \/ HookReturn \/ SlotRelease

SpecCacheFill == TranslateInit /\ [][FillNext]_vars

----------------------------------------------------------------------------
(* The detector driven by any caller, within the bounds. *)

MaxDetections == 3      \* SpecDetect: calls of detectLanguage per run

DetectCall ==
    /\ detCalls < MaxDetections
    /\ \E text \in Texts, options \in OptionsPool : Detect(text, options)

HistoryCleared == ClearHistory

DetectNext == DetectCall \/ HistoryCleared

SpecDetect == TranslateInit /\ [][DetectNext]_vars

(* The detector driven through one fixed round of texts, repeated, with the *)
(* default options; the history may be cleared at any time.                 *)

MaxHistoryCalls == 64   \* SpecHistory: calls of detectLanguage per run

RoundOfTexts == <<TextTea, TextAgenda, TextSpaces, TextMeeting, TextTheSaya, TextSigns>>

RoundCall ==
    /\ detCalls < MaxHistoryCalls
    /\ Detect(RoundOfTexts[(detCalls % Len(RoundOfTexts)) + 1], DefaultOptions)

HistoryNext == RoundCall \/ HistoryCleared

SpecHistory == TranslateInit /\ [][HistoryNext]_vars

----------------------------------------------------------------------------
(* One entry of any short content, split at any index and its two halves   *)
(* merged again in order.                                                   *)

MaxContent == 3         \* SpecRoundTrip: longest content split

ContentChars == {"x", "y", " "}

Contents == UNION {[1..n -> ContentChars] : n \in 0..MaxContent}

Whole == Seg(<<"s">>, "speaker1", <<>>, 1000, "en", 80)

RoundTripInit ==
    /\ transcripts \in {<<[Whole EXCEPT !.content = c]>> : c \in Contents}
    /\ undoStack = <<>>
    /\ redoStack = <<>>
    /\ clock = 0
    /\ lastCall = NoCall
    /\ edits = 0
    /\ firstEdit = <<>>
    /\ preMutation = <<>>
    /\ lastQuery = NoQuery
    /\ TransInit
    /\ DetInit
    /\ HookInit
    /\ AudioInit
    /\ EngineInit
    /\ SpeechUnused

RoundTripSplit ==
    /\ edits = 0
    /\ \E k \in 0..MaxContent : SplitSegment(Whole.id, k)

RoundTripMerge ==
    /\ lastCall.op = "splitSegment" /\ lastCall.ok
    /\ MergeSegments(<<Append(Whole.id, "1"), Append(Whole.id, "2")>>, clock)

RoundTripNext == RoundTripSplit \/ RoundTripMerge

SpecRoundTrip == RoundTripInit /\ [][RoundTripNext]_vars

----------------------------------------------------------------------------
(* The store started with pairwise different ids and given only ids it has  *)
(* never held, then merged, split, undone and redone.                       *)

MaxFreshEdits == 2      \* SpecFreshIds: successful mutators per run

SegD == Seg(<<"d">>, "speaker2", <<"x", "z">>, 3000, "en", 60)
SegA1 == Seg(<<"a", "1">>, "speaker2", <<"z">>, 4000, "en", 60)

DistinctCollections == { <<SegA, SegB, SegC, SegD>>, <<SegA, SegA1>> }

FreshInit ==
    /\ transcripts \in DistinctCollections
    /\ undoStack = <<>>
    /\ redoStack = <<>>
    /\ clock = 0
    /\ lastCall = NoCall
    /\ edits = 0
    /\ firstEdit = <<>>
    /\ preMutation = <<>>
    /\ lastQuery = NoQuery
    /\ TransInit
    /\ DetInit
    /\ HookInit
    /\ AudioInit
    /\ EngineInit
    /\ SpeechUnused

\* An id that no collection of this run has held: one per edit made so far.
FreshSegment == Seg(<<"new", ToString(edits)>>, "speaker1", <<"y", "z">>, 500, "ms", 40)

FreshAppend ==
    /\ edits < MaxFreshEdits
    /\ AddSegment(FreshSegment)

FreshMerge ==
    /\ edits < MaxFreshEdits
    /\ \E i \in 1..Len(transcripts), j \in 1..Len(transcripts), now \in 0..MaxClock :
          /\ i # j
          /\ MergeSegments(<<transcripts[i].id, transcripts[j].id>>, now)

FreshSplit ==
    /\ edits < MaxFreshEdits
    /\ \E i \in 1..Len(transcripts), k \in 1..2 :
          SplitSegment(transcripts[i].id, k)

FreshNext == FreshAppend \/ FreshMerge \/ FreshSplit \/ Undo \/ Redo

SpecFreshIds == FreshInit /\ [][FreshNext]_vars

----------------------------------------------------------------------------
(* A store holding any short collection, searched or exported once.         *)

MaxCues == 2            \* SpecQueries: longest collection searched or exported

Translated(segment, translations) == segment @@ [translations |-> translations]

QueryA ==
    Translated(Seg(<<"q1">>, Speaker1, <<"a", " ", "1">>, 1000, "en", 80),
               << <<"s", "a", "t", "u">> >>)
QueryB ==
    Translated(Seg(<<"q2">>, Speaker2, <<"A", "1", " ", "a">>, 2000, "ms", 60), <<>>)
QueryC ==
    Translated(Seg(<<"q3">>, Speaker2, <<"r", "o", "o", "m", " ", "1">>, 0, "en", 40),
               << <<"b", "a">>, <<"1">> >>)
QueryD ==
    Translated(Seg(<<"q4">>, Speaker1, <<"b">>, 3661000, "zh", 60), <<>>)

QuerySegments == {QueryA, QueryB, QueryC, QueryD}

QueryCollections == UNION {[1..n -> QuerySegments] : n \in 0..MaxCues}

SearchOptions ==
    [query : {<<"a">>, <<"1">>},
     caseSensitive : BOOLEAN,
     wholeWord : BOOLEAN,
     includeTranslations : BOOLEAN,
     speakerId : {<<>>, Speaker2},
     language : {"none", "en"},
     dateRange : {<<>>, <<[start |-> 1000, end |-> 2000]>>}]

ExportOptions == [includeSpeakerInfo : BOOLEAN]

Zones == {0, 8 * 3600000}

QueryInit ==
    /\ transcripts \in QueryCollections
    /\ undoStack = <<>>
    /\ redoStack = <<>>
    /\ clock = 0
    /\ lastCall = NoCall
    /\ edits = 0
    /\ firstEdit = <<>>
    /\ preMutation = <<>>
    /\ lastQuery = NoQuery
    /\ TransInit
    /\ DetInit
    /\ HookInit
    /\ AudioInit
    /\ EngineInit
    /\ SpeechUnused

SearchCall ==
    /\ lastQuery = NoQuery
    /\ \E options \in SearchOptions : Search(options)

SubtitlesCall ==
    /\ lastQuery = NoQuery
    /\ \E options \in ExportOptions, zone \in Zones :
          ExportToSRT(options, zone) \/ ExportToVTT(options, zone)

QueryNext == SearchCall \/ SubtitlesCall

SpecQueries == QueryInit /\ [][QueryNext]_vars

----------------------------------------------------------------------------
(* The hook's debounced detection called on live texts, auto-detection     *)
(* switched off and on, the component unmounted at any time.  The event    *)
(* loop runs a timeout that stays due.                                     *)

MaxTimers == 3          \* SpecDebounce: timeouts set per run

DebounceTexts == {TextTea, TextMeeting, TextSpaces}

DebouncedCall ==
    /\ timerCount < MaxTimers
    /\ \E text \in DebounceTexts : debouncedDetectLanguage(text)

TimeoutFires == \E t \in timers : Timeout(t)

AutoDetectSet == \E enabled \in BOOLEAN \ {autoDetectEnabled} : setAutoDetect(enabled)

Unmounted == Unmount

DebounceNext == DebouncedCall \/ TimeoutFires \/ AutoDetectSet \/ Unmounted

SpecDebounce ==
    TranslateInit /\ [][DebounceNext]_vars /\ WF_vars(TimeoutFires)

----------------------------------------------------------------------------
(* The audio manager driven by any caller on any platform: with or without *)
(* a capture API, any step of initialize failing, the analyser filling     *)
(* buffers of several lengths.                                             *)

MaxPending == 1         \* SpecAudio: calls of initialize waiting at a time

MaxChunks == 2          \* SpecAudio: blobs the recorder hands over per take

BufferEmpty == <<>>

BufferOne == <<128>>

BufferTen == <<40, 200, 180, 160, 140, 120, 100, 30, 20, 10>>

BufferTwelve == <<128, 255, 0, 128, 128, 128, 128, 128, 128, 0, 255, 128>>

Buffers == {BufferEmpty, BufferOne, BufferTen, BufferTwelve}

Failures == {"none"} \cup {InitSteps[i] : i \in 1..Len(InitSteps)}

InitializeCall ==
    /\ initializing < MaxPending
    /\ \E testMode \in BOOLEAN, mediaDevices \in BOOLEAN :
        Initialize(testMode, mediaDevices)

InitializeReturn == \E failure \in Failures : InitializeResumes(failure)

RecorderData ==
    /\ Len(recordedChunks) < MaxChunks
    /\ \E size \in {0, 100} : DataAvailable(size)

MetricsCall ==
    \E dataArray \in Buffers, timeDomainArray \in Buffers :
        GetAudioMetrics(dataArray, timeDomainArray)

AudioNext ==
    \/ InitializeCall
    \/ InitializeReturn
    \/ StartRecording
    \/ StopRecording
    \/ RecorderData
    \/ StopEvent
    \/ MetricsCall
    \/ Destroy

SpecAudio == TranslateInit /\ [][AudioNext]_vars

----------------------------------------------------------------------------
(* The offline engine called once with any request of the pool: a text of  *)
(* up to MaxWords words, from any language or "auto", to any language.     *)

MaxWords == 3           \* SpecOffline: words per text

WordThankYou == <<"T", "h", "a", "n", "k", " ", "y", "o", "u">>

WordTeamwork == <<"t", "e", "a", "m", "w", "o", "r", "k">>

WordKnow == <<"k", "n", "o", "w">>

WordSaya == <<"s", "a", "y", "a">>

WordHello == <<"u4f60", "u597d">>

Vocabulary ==
    {WordThankYou, WordTeamwork, WordKnow, WordSaya, ParticleDan, WordHello}

RECURSIVE JoinWords(_)
JoinWords(words) ==
    IF Len(words) = 1 THEN words[1]
    ELSE words[1] \o <<" ">> \o JoinWords(Tail(words))

OfflineTexts ==
    {<<>>, <<"t", "h", "a", "n", "k", " ", "y", "o", "u">>}
        \cup {JoinWords(words) :
                words \in UNION {[1..n -> Vocabulary] : n \in 1..MaxWords}}

OfflineRequests ==
    {Req(text, from, to) : text \in OfflineTexts,
                           from \in {"auto", "zh", "en", "ms"},
                           to \in {"zh", "en", "ms"}}

OfflineCall ==
    /\ offline = NoOffline
    /\ \E request \in OfflineRequests, time \in {0, 1} :
        OfflineEngineTranslate(request, time)

OfflineNext == OfflineCall

SpecOffline == TranslateInit /\ [][OfflineNext]_vars

----------------------------------------------------------------------------
(* The speech recognition manager driven by its caller and the platform's  *)
(* recognizer.  A recognizer that was started raises its start event, and  *)
(* a timeout that was set becomes due: both are fair.  No step of the      *)
(* manager ever leaves a restart timeout set, so RestartTimeout is no      *)
(* disjunct of the next-state relation.                                    *)

MaxStarts == 3

SpeechSpecInit ==
    /\ StoreUnused /\ TransInit /\ DetInit /\ HookInit /\ AudioInit /\ EngineInit
    /\ SpeechInit

StartCall == engineStarts < MaxStarts /\ SpeechStart

StopCall == SpeechStop

AbortCall == SpeechAbort(FALSE)

DestroyCall == SpeechAbort(TRUE)

SpeechNext ==
    \/ StartCall
    \/ StopCall
    \/ AbortCall
    \/ DestroyCall
    \/ StartEvent
    \/ EndEvent

SpecSpeech ==
    /\ SpeechSpecInit
    /\ [][SpeechNext]_vars
    /\ WF_vars(StartEvent)
    /\ WF_vars(RestartTimeout)

----------------------------------------------------------------------------
(* The orchestrator under a caller that keeps translating through the hook: *)
(* a request that has settled and left the hook is dropped, and its place   *)
(* is taken by the next request.  At most MaxSlots requests overlap.        *)

PreferenceNext ==
    \/ SelectStep \/ EngineStep \/ HookCall \/ HookReturn \/ SlotRelease

SpecPreference == TranslateInit /\ [][PreferenceNext]_vars

----------------------------------------------------------------------------
(* Claims about the transcript store. *)

\* C1: right after any mutator that succeeded, undo() returns true and leaves
\* the collection exactly as it was before that mutator ran.
C1_UndoRestoresPreMutation ==
    [][ (lastCall'.op \in Mutators /\ lastCall'.ok)
        => LET r == UndoResult(transcripts', undoStack', redoStack')
           IN  r.ok /\ r.transcripts = transcripts ]_vars

\* C1 witness: an undo that succeeded right after a successful merge.
C1_Witness ==
    /\ lastCall.op = "undo" /\ lastCall.ok
    /\ lastCall.prev = "mergeSegments" /\ lastCall.prevOk

\* C2: a mutator that succeeds leaves the pre-operation collection on top of
\* the undo stack and an empty redo stack, so that redo() then returns false.
C2_MutatorSavesState ==
    [][ (lastCall'.op \in Mutators /\ lastCall'.ok)
        => /\ undoStack' # <<>>
           /\ undoStack'[Len(undoStack')] = transcripts
           /\ redoStack' = <<>>
           /\ ~RedoResult(transcripts', undoStack', redoStack').ok ]_vars

\* C2 witness: a mutator has just succeeded from a state with something to redo.
C2_Witness ==
    /\ lastCall.op \in Mutators /\ lastCall.ok
    /\ lastCall.prev = "undo" /\ lastCall.prevOk

\* C3: the undo stack never holds more than 50 snapshots, and after 51
\* mutations exactly 50 undos succeed, ending in the collection that followed
\* the first mutation (the snapshot dropped was the oldest).
C3_UndoStackBounded ==
    /\ Len(undoStack) <= 50
    /\ (edits = 51 /\ Len(redoStack) = 50)
        => /\ transcripts = firstEdit[1]
           /\ ~UndoResult(transcripts, undoStack, redoStack).ok

\* C3 witness: the fiftieth undo after fifty-one mutations.
C3_Witness ==
    /\ edits = 51 /\ Len(redoStack) = 50
    /\ lastCall.op = "undo" /\ lastCall.ok

\* The id names no entry of the collection.
Unknown(id) == \A i \in 1..Len(transcripts) : transcripts[i].id # id

\* The entry an id names: the first one carrying it.
Named(id) == transcripts[FindIndex(transcripts, id)]

\* The call returned false and left the collection and both stacks alone.
Refused ==
    /\ ~lastCall'.ok
    /\ UNCHANGED <<transcripts, undoStack, redoStack>>

\* C17: a rejected store operation returns false and changes nothing:
\* updateSegment or deleteSegment with an unknown id, mergeSegments with fewer
\* than 2 ids or with an id not in the store, splitSegment with an unknown id
\* or an index not strictly between 0 and the content length leave the
\* collection, the undo stack and the redo stack as they were.
C17_RejectedChangesNothing ==
    [][ /\ lastCall'.op = "updateSegment"
            => \A id \in IdsInUse, u \in UpdatePool :
                  (Unknown(id) /\ UpdateSegment(id, u)) => Refused
        /\ lastCall'.op = "deleteSegment"
            => \A id \in IdsInUse :
                  (Unknown(id) /\ DeleteSegment(id)) => Refused
        /\ lastCall'.op = "splitSegment"
            => \A id \in IdsInUse, k \in 0..3 :
                  ( /\ \/ Unknown(id)
                       \/ k <= 0
                       \/ k >= Len(Named(id).content)
                    /\ SplitSegment(id, k) ) => Refused
        /\ lastCall'.op = "mergeSegments"
            => \A ids \in IdLists, now \in 0..MaxClock :
                  ( /\ \/ Len(ids) < 2
                       \/ \E n \in 1..Len(ids) : Unknown(ids[n])
                    /\ MergeSegments(ids, now) ) => Refused ]_vars

\* C17 witness: a split was rejected right after an undo, with something to
\* redo that a saved state would have dropped.
C17_Witness ==
    /\ lastCall.op = "splitSegment" /\ ~lastCall.ok
    /\ lastCall.prev = "undo" /\ lastCall.prevOk
    /\ redoStack # <<>>

\* segmentIds.includes(id)
NamedIn(ids, id) == \E n \in 1..Len(ids) : ids[n] = id

\* How many entries of the collection are this entry.
Occurrences(ts, s) == Cardinality({i \in 1..Len(ts) : ts[i] = s})

\* The collection is in ascending order of timestamp.
Ascending(ts) ==
    \A i \in 1..(Len(ts) - 1) : ts[i].timestamp <= ts[i + 1].timestamp

\* C18: after a successful mergeSegments(ids) the collection holds none of the
\* entries named in ids, holds one new merged entry (its length dropped by the
\* number of ids minus one), keeps every other entry, and is in ascending
\* order of timestamp.
C18_MergeReplacesNamed ==
    [][ \A ids \in IdLists, now \in 0..MaxClock :
          (lastCall'.op = "mergeSegments" /\ lastCall'.ok
              /\ MergeSegments(ids, now))
          => /\ \A i \in 1..Len(transcripts) :
                   IF NamedIn(ids, transcripts[i].id)
                   THEN Occurrences(transcripts', transcripts[i]) = 0
                   ELSE Occurrences(transcripts', transcripts[i])
                            = Occurrences(transcripts, transcripts[i])
             /\ Len(transcripts') = Len(transcripts) - (Len(ids) - 1)
             /\ Ascending(transcripts') ]_vars

\* C19: the entry produced by mergeSegments(ids) takes its speaker and its
\* timestamp from the entry named first in ids, its content is the contents
\* of the named entries joined by single spaces in the order of ids, and its
\* confidence is the arithmetic mean of theirs.
C19_MergedEntryFollowsIdOrder ==
    [][ (lastCall'.op = "mergeSegments" /\ lastCall'.ok)
        => \A ids \in IdLists, now \in 0..MaxClock :
             MergeSegments(ids, now)
          => LET named == [n \in 1..Len(ids) |-> Named(ids[n])]
                 produced ==
                     {j \in 1..Len(transcripts') :
                         /\ transcripts'[j].isMerged
                         /\ transcripts'[j].id = <<"merged", ToString(now)>>
                         /\ transcripts'[j].originalSegmentIds = ids}
             IN  /\ produced # {}
                 /\ \A j \in produced :
                       /\ transcripts'[j].speakerId = named[1].speakerId
                       /\ transcripts'[j].timestamp = named[1].timestamp
                       /\ transcripts'[j].content = JoinContents(named)
                       /\ transcripts'[j].confidence * Len(named)
                              = SumConfidence(named) ]_vars

\* C19 witness: the two entries of <<SegA, SegB>> were merged with the ids
\* given against the order of the collection.
C19_Witness ==
    /\ lastCall.op = "mergeSegments" /\ lastCall.ok
    /\ undoStack # <<>> /\ undoStack[Len(undoStack)] = <<SegA, SegB>>
    /\ \E j \in 1..Len(transcripts) :
          /\ transcripts[j].originalSegmentIds = <<SegB.id, SegA.id>>
          /\ transcripts[j].content = SegB.content \o <<" ">> \o SegA.content
          /\ transcripts[j].speakerId = SegB.speakerId
          /\ transcripts[j].confidence = 70

\* C20: a successful splitSegment(id, k) replaces the entry at its position i
\* by two entries at positions i and i+1, the first with the original
\* timestamp and the second one second later; every other entry keeps its
\* value and its relative order, and the collection is not sorted again.
C20_SplitInPlace ==
    [][ (lastCall'.op = "splitSegment" /\ lastCall'.ok)
        => \A id \in IdsInUse, k \in 0..3 :
             SplitSegment(id, k)
          => LET i == FindIndex(transcripts, id)
             IN  /\ Len(transcripts') = Len(transcripts) + 1
                 /\ \A j \in 1..(i - 1) : transcripts'[j] = transcripts[j]
                 /\ \A j \in (i + 1)..Len(transcripts) :
                       transcripts'[j + 1] = transcripts[j]
                 /\ transcripts'[i].id = Append(id, "1")
                 /\ transcripts'[i + 1].id = Append(id, "2")
                 /\ transcripts'[i].timestamp = transcripts[i].timestamp
                 /\ transcripts'[i + 1].timestamp
                        = transcripts[i].timestamp + 1000 ]_vars

\* C20 witness: a split left the second half, one second later, ahead of an
\* earlier entry: the collection is out of timestamp order after it.
C20_Witness ==
    /\ lastCall.op = "splitSegment" /\ lastCall.ok
    /\ \E j \in 1..(Len(transcripts) - 2) :
          /\ transcripts[j].id = Append(SegA.id, "1")
          /\ transcripts[j + 1].id = Append(SegA.id, "2")
          /\ transcripts[j + 1].timestamp > transcripts[j + 2].timestamp

\* C21: for every content c and every valid split index k, splitting at k and
\* then merging the two halves in order gives an entry whose content, trimmed
\* of surrounding whitespace, is c trimmed.
C21_SplitThenMergeKeepsContent ==
    (/\ lastCall.op = "mergeSegments" /\ lastCall.ok
     /\ lastCall.prev = "splitSegment" /\ lastCall.prevOk
     /\ Len(undoStack) = 2)
    => /\ Len(transcripts) = 1
       /\ Trim(transcripts[1].content) = Trim(undoStack[1][1].content)

\* C22: from a collection of pairwise different ids, appending only new ids,
\* every collection reached through mergeSegments, splitSegment, undo and
\* redo has pairwise different ids.
C22_IdsUnique ==
    \A i, j \in 1..Len(transcripts) :
        transcripts[i].id = transcripts[j].id => i = j

\* The milliseconds since midnight a formatted timestamp stands for.
StampMs(stamp) ==
    LET d(k) == CHOOSE n \in 0..9 : ToString(n) = stamp[k]
    IN  ((d(1) * 10 + d(2)) * 3600 + (d(4) * 10 + d(5)) * 60 + d(7) * 10 + d(8)) * 1000
            + d(10) * 100 + d(11) * 10 + d(12)

\* The local time of day of an instant, in milliseconds since midnight.
DayMs(t, zone) == (t + zone) % (24 * 3600000)

\* C23: in both subtitle exports every cue but the last ends at the next
\* entry's timestamp minus 1 second and the last cue ends at its own
\* timestamp plus 3 seconds; for two entries 1 second apart the first cue
\* ends one second before the second entry starts.
C23_CueEndTimes ==
    lastQuery.op \in {"exportToSRT", "exportToVTT"}
    => /\ Len(lastQuery.out) = Len(transcripts)
       /\ \A i \in 1..Len(transcripts) :
             /\ StampMs(lastQuery.out[i].startTime)
                    = DayMs(transcripts[i].timestamp, lastQuery.zone)
             /\ StampMs(lastQuery.out[i].endTime)
                    = IF i < Len(transcripts)
                      THEN DayMs(transcripts[i + 1].timestamp - 1000, lastQuery.zone)
                      ELSE DayMs(transcripts[i].timestamp + 3000, lastQuery.zone)
             /\ lastQuery.out[i].endTime[9]
                    = IF lastQuery.op = "exportToSRT" THEN "," ELSE "."

\* C23 witness: two entries 1 second apart exported to the comma-decimal
\* format: the first cue ends where it starts.
C23_Witness ==
    /\ lastQuery.op = "exportToSRT"
    /\ Len(transcripts) = 2
    /\ transcripts[2].timestamp = transcripts[1].timestamp + 1000
    /\ lastQuery.out[1].endTime = lastQuery.out[1].startTime
    /\ lastQuery.out[2].endTime # lastQuery.out[2].startTime

\* The query matches somewhere in a text.
Found(options, text) ==
    \E p \in 1..(Len(text) - Len(options.query) + 1) : MatchesAt(options, text, p)

\* The three flags search should report for a segment.
FieldMatches(options, segment) ==
    [content |-> Found(options, segment.content),
     translation |->
        /\ options.includeTranslations
        /\ \E n \in 1..Len(segment.translations) :
              Found(options, segment.translations[n]),
     speaker |-> Found(options, segment.speakerId)]

\* The positions of the collection search should return, in order.
Hits(options) ==
    LET hit(i) ==
            /\ PassesFilters(transcripts[i], options)
            /\ \E f \in {"content", "translation", "speaker"} :
                  FieldMatches(options, transcripts[i])[f]
        hits == {i \in 1..Len(transcripts) : hit(i)}
    IN  [k \in 1..Cardinality(hits) |-> Nth(hits, k)]

\* C24: search returns exactly the entries that pass the filters and in which
\* the query matches the content, a translation (when included) or the
\* speaker id; each result's flags are true exactly when that field matches
\* and every match in its content is highlighted, whatever was examined
\* before it.
C24_SearchIsStateless ==
    lastQuery.op = "search"
    => LET options == lastQuery.options
           hits == Hits(options)
       IN  /\ Len(lastQuery.out) = Len(hits)
           /\ \A k \in 1..Len(hits) :
                 LET segment == transcripts[hits[k]]
                     result == lastQuery.out[k]
                 IN  /\ result.segment = segment
                     /\ result.segmentId = segment.id
                     /\ result.matches = FieldMatches(options, segment)
                     /\ result.highlightedContent
                            = Marked(options, segment.content, 0)

----------------------------------------------------------------------------
(* Claims about the translation orchestrator. *)

InFlight(e) == execs[e].pc \in {"probePreferred", "probe", "translating", "fallback"}

Unsupported(req) == <<SourceLanguage(req), req.to>> \notin DOMAIN Dictionaries

\* What the engines can return for a request, whatever time they report.
Timeless(result) == [result EXCEPT !.processingTime = 0]

EngineResults(req) ==
    {Timeless(EngineTranslate(g, req).result) :
        g \in {h \in {"web", "offline"} : EngineTranslate(h, req).kind = "ok"}}

\* C4: requests with the same (from, to, text) issued while one of them is
\* still pending share that one's work, so no two pending calls of the
\* orchestrator ever work on the same key (one engine invocation, one write).
C4_OneCallPerKey ==
    \A e, f \in Slots :
        (e # f /\ InFlight(e) /\ InFlight(f))
            => getCacheKey(execs[e].req) # getCacheKey(execs[f].req)

\* C5: once a request has completed successfully, and until the cache is
\* cleared or its key evicted, a translate of the same key returns the same
\* translatedText with processingTime 0, probing and invoking no engine.
C5_CachedReplyMatchesCompleted ==
    \A e \in Slots :
        (Settled(e) /\ execs[e].outcome.kind = "ok" /\ ~execs[e].voided)
            => LET later == Started(execs[e].req, "hook")
               IN  /\ later.pc = "settled"
                   /\ later.outcome.kind = "ok"
                   /\ later.outcome.result.translatedText
                        = execs[e].outcome.result.translatedText
                   /\ later.outcome.result.processingTime = 0
                   /\ later.probes = <<>>
                   /\ later.calls = <<>>

\* C6: a request invokes at most two engines; when the first invocation
\* failed on an engine other than the last one, the only other invocation is
\* one retry on the last engine; and translate rejects only after the last
\* engine has failed for the request.
C6_RetryOnceOnLastEngine ==
    \A e \in Slots :
        LET x == execs[e]
            n == Len(x.calls)
        IN  /\ n <= 2
            /\ (n >= 1 /\ (x.calls[1][2] = "ok" \/ x.calls[1][1] = "offline"))
                    => n = 1
            /\ (n >= 1 /\ x.calls[1][2] = "fail" /\ x.calls[1][1] # "offline")
                    => \/ x.pc = "fallback" /\ n = 1
                       \/ x.pc = "settled" /\ n = 2 /\ x.calls[2][1] = "offline"
            /\ (x.pc = "settled" /\ x.outcome.kind = "error")
                    => n >= 1 /\ x.calls[n] = <<"offline", "fail">>
            /\ (x.pc = "settled" /\ n >= 1 /\ x.calls[n][2] = "ok")
                    => x.outcome.kind = "ok"

\* C6 witness: a request that failed on the web engine, was retried on the
\* offline engine, failed there too and was rejected.
C6_Witness ==
    \E e \in Slots :
        /\ Settled(e)
        /\ execs[e].outcome.kind = "error"
        /\ execs[e].calls = << <<"web", "fail">>, <<"offline", "fail">> >>

\* C7: translateBatch never rejects; once it has resolved every item has
\* settled and there is one result per request, in request order: a failed
\* item gives the request's text, confidence 0 and a failure note, any other
\* item gives what its own translate returned, a result of one of the engines.
C7_BatchNeverRejects ==
    /\ batch.status # "rejected"
    /\ batch.status = "fulfilled"
        => /\ Len(batch.results) = Len(batch.requests)
           /\ \A i \in 1..Len(batch.requests) :
                LET x == execs[batch.slots[i]]
                    r == batch.results[i]
                IN  /\ x.pc = "settled"
                    /\ x.req = batch.requests[i]
                    /\ IF x.outcome.kind = "error"
                       THEN /\ r.translatedText = batch.requests[i].text
                            /\ r.confidence = 0
                            /\ r.contextualNotes # <<>>
                       ELSE /\ r = x.outcome.result
                            /\ Timeless(r) \in EngineResults(batch.requests[i])

\* C7 witness: a resolved batch with a failed item and a translated one.
C7_Witness ==
    /\ batch.status = "fulfilled"
    /\ \E i, j \in 1..Len(batch.requests) :
          /\ execs[batch.slots[i]].outcome.kind = "error"
          /\ execs[batch.slots[j]].outcome.kind = "ok"
          /\ batch.results[j].translatedText # batch.requests[j].text

\* C8: the cache never holds more than 100 entries; a write of a new key
\* appends it, after dropping the earliest inserted key when the cache is
\* full; and a cache hit leaves the cache, its order included, as it was.
C8_CacheBoundedFifo ==
    /\ [](Len(cache) <= 100)
    /\ [][ /\ (\E e \in Slots : execs'[e].hit /\ ~execs[e].hit) => cache' = cache
           /\ cache' # cache
                => LET old == CacheKeys(cache)
                       new == CacheKeys(cache')
                   IN  \A k \in {new[i] : i \in 1..Len(new)}
                                    \ {old[i] : i \in 1..Len(old)} :
                           new = Append(IF Len(old) = 100 THEN Tail(old) ELSE old,
                                        k) ]_vars

\* C8 witness: a full cache whose first inserted key has been evicted, and a
\* call that was answered from the cache for a key evicted since.
C8_Witness ==
    /\ Len(cache) = 100
    /\ cache[1].key # getCacheKey(FillReq(1))
    /\ \E e \in Slots :
          execs[e].hit /\ ~CacheHas(cache, getCacheKey(execs[e].req))

\* C9 as stated: the engine asked first for its availability is the last one
\* that served a translation, and it is the one tried when it is available;
\* with no such engine the engines are asked in priority order.
C9_PrefersLastSuccessful ==
    \A e \in Slots :
        LET x == execs[e]
        IN  x.probes # <<>>
                => /\ x.probes[1][1] = IF x.lastSuccAtStart # "none"
                                       THEN x.lastSuccAtStart ELSE Engines[1]
                   /\ (x.how # "none" /\ x.lastSuccAtStart # "none"
                            /\ x.probes[1][2])
                        => x.engine = x.lastSuccAtStart

\* C9 amended: the engine asked first is the preferred engine, the one a
\* priority-order probe last adopted, whether or not it ever served a
\* translation; if it reports available, the engine tried is the preferred
\* engine as it stands when that answer arrives; otherwise the engines are
\* asked in priority order and the first available one is tried and preferred.
C9_PrefersLastAdopted ==
    \A e \in Slots :
        LET x == execs[e]
            rest == IF x.prefAtStart = "none" THEN x.probes ELSE Tail(x.probes)
        IN  /\ x.probes # <<>>
                => x.probes[1][1] = IF x.prefAtStart # "none"
                                    THEN x.prefAtStart ELSE Engines[1]
            /\ x.how = "preferred"
                => /\ x.probes = << <<x.prefAtStart, TRUE>> >>
                   /\ x.engine = x.adoptedAtSelect
                   /\ x.calls # <<>> => x.calls[1][1] = x.engine
            /\ x.how = "probed"
                => /\ x.prefAtStart # "none" => x.probes[1][2] = FALSE
                   /\ rest # <<>>
                   /\ \A i \in 1..Len(rest) :
                        rest[i] = <<Engines[i], i = Len(rest)>>
                   /\ x.engine = Engines[Len(rest)]
                   /\ x.prefAfterSelect = x.engine
                   /\ x.calls # <<>> => x.calls[1][1] = x.engine

\* C9 witness: a request whose engine was found by asking in priority order,
\* and another tried first on that engine, then preferred, before any
\* translation had been served.
C9_Witness ==
    /\ \E e \in Slots :
          /\ execs[e].how = "probed"
          /\ execs[e].calls # <<>>
    /\ \E e \in Slots :
          /\ execs[e].how = "preferred"
          /\ execs[e].lastSuccAtStart = "none"
          /\ execs[e].calls # <<>>

\* C10: a request for a language pair without a dictionary ends in an error
\* of its own kind, not in the failure reported when engines are unavailable.
C10_UnsupportedPairError ==
    \A e \in Slots :
        (Settled(e) /\ Unsupported(execs[e].req))
            => /\ execs[e].outcome.kind = "error"
               /\ execs[e].outcome.error = "UnsupportedLanguagePair"

----------------------------------------------------------------------------
(* Claims about the language detector. *)

\* A text that is empty or made of whitespace only.
OnlyWhitespace(text) == \A i \in 1..Len(text) : text[i] \in {" ", "\t", "\n"}

\* A call of detectLanguage has just returned.
Detected == lastDetection.op = "detectLanguage"

\* The sum of the three shares of a breakdown is 1.
SumsToOne(b) ==
    b.zh[1] * b.en[2] * b.ms[2] + b.en[1] * b.zh[2] * b.ms[2]
        + b.ms[1] * b.zh[2] * b.en[2] = b.zh[2] * b.en[2] * b.ms[2]

\* C11: for every text, blank ones included, the languageBreakdown returned
\* by detectLanguage satisfies zh + en + ms = 1.
C11_BreakdownSumsToOne ==
    Detected => SumsToOne(lastDetection.result.languageBreakdown)

\* C12: detectLanguage on an empty or whitespace-only text returns 'en' with
\* confidence 0 and leaves the history as it was, whatever the history holds.
C12_BlankTextFallback ==
    [][ (detCalls' = detCalls + 1 /\ OnlyWhitespace(lastDetection'.text))
        => /\ lastDetection'.result.detectedLanguage = "en"
           /\ lastDetection'.result.confidence = 0
           /\ languageHistory' = languageHistory ]_vars

\* C12 witness: a whitespace-only text was detected, with the history in use,
\* by a detector whose history is not empty.
C12_Witness ==
    /\ Detected
    /\ lastDetection.text # <<>> /\ OnlyWhitespace(lastDetection.text)
    /\ lastDetection.options.useHistory
    /\ languageHistory # <<>>

\* C13: the history holds at most 50 records and is, in order, the last (up
\* to 50) records pushed since it was last cleared; a history-enabled
\* detection of a text that is not blank pushes exactly one record, that of
\* its result, and any other detection pushes none.
C13_HistoryIsRecentWindow ==
    /\ [](/\ Len(languageHistory) <= 50
          /\ languageHistory =
                SubSeq(appended,
                       IF Len(appended) > 50 THEN Len(appended) - 49 ELSE 1,
                       Len(appended)))
    /\ [][ detCalls' = detCalls + 1
            => IF lastDetection'.options.useHistory /\ ~OnlyWhitespace(lastDetection'.text)
               THEN appended' =
                        Append(appended,
                               [language |-> lastDetection'.result.detectedLanguage,
                                timestamp |-> detCalls,
                                confidence |-> lastDetection'.result.confidence])
               ELSE appended' = appended /\ languageHistory' = languageHistory ]_vars

\* C13 witness: more than 50 records were pushed since the last clear, after
\* an earlier clear, and the history starts at the 50th record from the end.
C13_Witness ==
    /\ Len(appended) > 50
    /\ Len(languageHistory) = 50
    /\ languageHistory[1] = appended[Len(appended) - 49]
    /\ appended[1].timestamp > 0

\* C14: with useHistory = false, detecting a text returns the confidence and
\* the language a detector with no past returns for it, whatever the history
\* holds, and leaves the history as it was.
C14_NoHistoryIsPure ==
    /\ [](\A text \in Texts :
            LET options == [DefaultOptions EXCEPT !.useHistory = FALSE]
                here == detectLanguage(text, options, languageHistory, detCalls)
                fresh == detectLanguage(text, options, <<>>, 0)
            IN  /\ here.result.confidence = fresh.result.confidence
                /\ here.result.detectedLanguage = fresh.result.detectedLanguage
                /\ here.history = languageHistory)
    /\ [][ (detCalls' = detCalls + 1 /\ ~lastDetection'.options.useHistory)
            => /\ languageHistory' = languageHistory
               /\ lastDetection'.result =
                    detectLanguage(lastDetection'.text, lastDetection'.options,
                                   <<>>, 0).result ]_vars

\* C14 witness: a detection without the history, of a text whose confidence
\* the history in place would have changed.
C14_Witness ==
    /\ Detected
    /\ ~lastDetection.options.useHistory
    /\ languageHistory # <<>>
    /\ detectLanguage(lastDetection.text, DefaultOptions, languageHistory,
                      detCalls).result.confidence
            # lastDetection.result.confidence

\* C15: the confidence of every detection result and of every record of the
\* history lies in [0, 1].
C15_ConfidenceInUnitInterval ==
    /\ lastDetection.result.confidence \in 0..Scale
    /\ \A i \in 1..Len(languageHistory) :
            languageHistory[i].confidence \in 0..Scale

\* C15 witness: a detection blended with a history of two records or more
\* gave a confidence strictly between 0 and 1.
C15_Witness ==
    /\ Detected
    /\ lastDetection.options.useHistory
    /\ Len(languageHistory) >= 3
    /\ lastDetection.result.confidence \in 1..(Scale - 1)

\* C16: "Hello, apa agenda mesyuarat hari ini?" with the default options is
\* detected as 'mixed', with at least one code-switching point.
C16_AgendaIsMixed ==
    (Detected /\ lastDetection.text = TextAgenda
              /\ lastDetection.options = DefaultOptions)
        => /\ lastDetection.result.detectedLanguage = "mixed"
           /\ lastDetection.result.codeSwitchingPoints # <<>>

\* The history as it was before the detectLanguage call made last, which
\* has pushed one record on it.
HistoryBefore == SubSeq(languageHistory, 1, Len(languageHistory) - 1)

\* C28: with the history in use, the confidence detectLanguage returns for a
\* text that is not blank is min(1, 0.7 s + 0.3 h), s the normalized score of
\* the primary language and h the mean confidence of the records of that
\* language among the last 10 of the history; it is s when there is no such
\* record.
C28_ConfidenceBlendsSameLanguageMean ==
    (/\ lastDetection.op = "detectLanguage"
     /\ lastDetection.options.useHistory
     /\ ~IsBlank(lastDetection.text)) =>
        LET primaryLanguage ==
                getPrimaryLanguage(lastDetection.result.languageBreakdown,
                                   lastDetection.options.minConfidence)
            s == ToScale(lastDetection.result.languageBreakdown[primaryLanguage])
            same == SelectSeq(Recent(HistoryBefore),
                              LAMBDA h : h.language = primaryLanguage)
        IN  lastDetection.result.confidence =
                IF same = <<>> THEN Min(s, Scale)
                ELSE Min((s * 7 + (SumOf(same, primaryLanguage) \div Len(same)) * 3)
                            \div 10, Scale)

\* The share that has one of the three at or above it and one at or below it.
MiddleShare(breakdown) ==
    LET v == <<breakdown.zh, breakdown.en, breakdown.ms>>
        i == CHOOSE i \in 1..3 :
                /\ Cardinality({j \in 1..3 : ~Less(v[j], v[i])}) >= 2
                /\ Cardinality({j \in 1..3 : ~Less(v[i], v[j])}) >= 2
    IN  v[i]

\* C29: for a text that is not blank detectLanguage reports "mixed" exactly
\* when the second highest normalized score is above 0.3; otherwise it
\* reports "en" when the highest score is below minConfidence and a language
\* of the highest score when it is not; and the record it pushes on the
\* history carries the language it reports.
C29_MixedOrPrimaryOrFallback ==
    (lastDetection.op = "detectLanguage" /\ ~IsBlank(lastDetection.text)) =>
        LET breakdown == lastDetection.result.languageBreakdown
            reported == lastDetection.result.detectedLanguage
        IN  /\ (reported = "mixed") <=> Less(<<3, 10>>, MiddleShare(breakdown))
            /\ reported # "mixed" =>
                IF \A l \in {"zh", "en", "ms"} :
                        Less(breakdown[l], lastDetection.options.minConfidence)
                THEN reported = "en"
                ELSE /\ reported \in {"zh", "en", "ms"}
                     /\ \A l \in {"zh", "en", "ms"} :
                            ~Less(breakdown[reported], breakdown[l])
            /\ lastDetection.options.useHistory =>
                /\ languageHistory # <<>>
                /\ languageHistory[Len(languageHistory)].language = reported

\* Three words of Malay and one of English under a threshold of 0.9: the
\* highest share, 0.75, is below it, "en" is reported and pushed.
C29_Witness ==
    /\ lastDetection.op = "detectLanguage"
    /\ lastDetection.text = TextTheSayaDanApa
    /\ lastDetection.options.minConfidence = <<9, 10>>
    /\ lastDetection.result.detectedLanguage = "en"
    /\ Less(lastDetection.result.languageBreakdown.en,
            lastDetection.result.languageBreakdown.ms)
    /\ languageHistory[Len(languageHistory)].language = "en"

----------------------------------------------------------------------------
(* Claims about the detection hook and the audio manager. *)

C27_InitializeFallsBackToTestMode ==
    /\ [](lastAudio.op = "initialize" =>
            /\ ~lastAudio.raised
            /\ (\/ lastAudio.out[1].testMode
                \/ ~lastAudio.out[1].mediaDevices
                \/ lastAudio.out[1].failure # "none") => isTestMode)
    /\ [][(isTestMode /\ StartRecording) =>
            isRecording' /\ ~lastAudio'.raised]_vars
    /\ [][(isTestMode /\ isRecording /\ StopRecording) =>
            /\ ~lastAudio'.raised
            /\ lastAudio'.settled
            /\ lastAudio'.out # <<>>
            /\ ~isRecording']_vars

\* The capture source was acquired, the audio context could not be made,
\* and a take in the test mode has been stopped and has given its blob.
C27_Witness ==
    /\ lastAudio.op = "stopRecording"
    /\ lastAudio.out = <<DummyBlob>>
    /\ isTestMode
    /\ stream
    /\ ~audioContext

----------------------------------------------------------------------------
(* Claims about the offline engine. *)

\* Whether no term of the table of the request's pair occurs in its text.
NoTermMatches ==
    \A i \in 1..Len(dictionaries[<<offline.result.detectedSourceLanguage,
                                  offline.request.to>>]) :
        ~Includes(toLowerCase(offline.request.text),
                  dictionaries[<<offline.result.detectedSourceLanguage,
                                offline.request.to>>][i][1])

\* C30: for a pair that has a table, the confidence of the offline engine is
\* min(1, 0.3 + 0.2 n) when n >= 1 terms were substituted; when no term
\* occurs in the text, none is substituted and the result is the text as it
\* was given, in brackets, with confidence 0.1 and a note; the confidence is
\* never strictly between 0.1 and 0.5; and "thank you" from en to ms gives
\* "Terima kasih" with a confidence of 0.5 or more.
C30_OfflineConfidence ==
    (offline.op = "translate" /\ offline.kind = "ok") =>
        /\ Len(offline.substituted) >= 1 =>
            offline.result.confidence
                = Min(30 + 20 * Len(offline.substituted), 100)
        /\ NoTermMatches <=> Len(offline.substituted) = 0
        /\ Len(offline.substituted) = 0 =>
            /\ offline.result.translatedText
                    = <<"[">> \o offline.request.text \o <<"]">>
            /\ offline.result.confidence = 10
            /\ offline.result.contextualNotes # <<>>
        /\ ~(offline.result.confidence > 10 /\ offline.result.confidence < 50)
        /\ (/\ toLowerCase(offline.request.text)
                    = <<"t", "h", "a", "n", "k", " ", "y", "o", "u">>
            /\ offline.request.from = "en"
            /\ offline.request.to = "ms") =>
            /\ offline.result.translatedText
                    = <<"T", "e", "r", "i", "m", "a", " ", "k", "a", "s", "i", "h">>
            /\ offline.result.confidence >= 50

\* Four terms of the en-ms table in one text: the confidence is capped at 1.
C30_Witness ==
    /\ offline.op = "translate"
    /\ offline.kind = "ok"
    /\ offline.request.to = "ms"
    /\ offline.result.detectedSourceLanguage = "en"
    /\ Len(offline.substituted) = 4
    /\ offline.result.confidence = 100

----------------------------------------------------------------------------
(* Claims about the speech recognition manager. *)

\* The recognizer has just ended in continuous mode while the manager was
\* started and neither stopped nor aborted, after n starts of the engine.
EndedWhileActive(n) ==
    /\ lastSpeech = [op |-> "onend", wasActive |-> TRUE]
    /\ speechEngine
    /\ continuous
    /\ engineStarts = n

\* C31: in continuous mode, when the recognizer ends while the manager was
\* started and has not been stopped or aborted by the caller, the manager
\* eventually calls start on the engine again.
C31_ContinuousModeRestarts ==
    \A n \in 0..MaxStarts : EndedWhileActive(n) ~> (engineStarts > n)

----------------------------------------------------------------------------
(* Claims about the two stacks of the transcript store. *)

\* The snapshots on the two stacks together.
Snapshots == Len(undoStack) + Len(redoStack)

\* C32: the undo stack and the redo stack together never hold more than 50
\* snapshots, and an undo or a redo that succeeds moves exactly one snapshot
\* from one stack to the other.
C32_StacksTogetherBounded ==
    /\ [](Snapshots <= maxUndoSteps)
    /\ [][ /\ (lastCall'.op = "undo" /\ lastCall'.ok)
              => /\ Len(undoStack') = Len(undoStack) - 1
                 /\ Len(redoStack') = Len(redoStack) + 1
           /\ (lastCall'.op = "redo" /\ lastCall'.ok)
              => /\ Len(undoStack') = Len(undoStack) + 1
                 /\ Len(redoStack') = Len(redoStack) - 1 ]_vars

\* C32 witness: a redo has just filled the undo stack to its bound.
C32_Witness ==
    /\ lastCall.op = "redo" /\ lastCall.ok
    /\ Len(undoStack) = maxUndoSteps

\* The store as a call result describes it.
StoreAs(r) == <<r.transcripts, r.undoStack, r.redoStack>>

\* C33: where undo() succeeds, undo() followed by redo() restores the
\* collection and both stacks; undo() on an empty undo stack and redo() on an
\* empty redo stack return false and change nothing.
C33_UndoRedoInverse ==
    LET here == <<transcripts, undoStack, redoStack>>
        u == UndoResult(transcripts, undoStack, redoStack)
        ur == RedoResult(u.transcripts, u.undoStack, u.redoStack)
        r == RedoResult(transcripts, undoStack, redoStack)
    IN  /\ u.ok => (ur.ok /\ StoreAs(ur) = here)
        /\ undoStack = <<>> => (~u.ok /\ StoreAs(u) = here)
        /\ redoStack = <<>> => (~r.ok /\ StoreAs(r) = here)

\* C33 witness: a redo that succeeded right after an undo that succeeded,
\* with more left to redo.
C33_Witness ==
    /\ lastCall.op = "redo" /\ lastCall.ok
    /\ lastCall.prev = "undo" /\ lastCall.prevOk
    /\ redoStack # <<>>

\* C34: snapshots are never altered by later operations.  After n <= 50
\* successful mutators of any mix, each undo() that follows succeeds and
\* leaves the collection as it was before the latest mutator not yet undone
\* (a redo puts its mutator back), so that the n-th undo gives back the
\* collection the run began with.
C34_UndoRetracesMutators ==
    [][ (lastCall'.op = "undo" /\ preMutation # <<>>)
        => /\ lastCall'.ok
           /\ transcripts' = preMutation[Len(preMutation)] ]_vars

\* C34 witness: the fiftieth undo in a row has undone the last of fifty
\* mutators.
C34_Witness ==
    /\ lastCall.op = "undo" /\ lastCall.ok
    /\ Len(redoStack) = maxUndoSteps
    /\ preMutation = <<>>

----------------------------------------------------------------------------
(* Claims about the orchestrator's engine preference and the hook's table. *)

\* A request still on record took the offline engine from selectEngine's
\* loop or as the preferred engine: the offline engine has been preferred.
OfflineWasPreferred ==
    \E a \in Slots :
        /\ execs[a].engine = LastEngine
        /\ execs[a].how \in {"probed", "preferred"}

\* C35: once the offline engine has become the preferred engine, no translate
\* request made later probes the primary engine.  A request probes for the
\* first time in the step that starts it.
C35_FallbackPreferenceAbsorbing ==
    [][ \A e \in Slots :
          (OfflineWasPreferred /\ execs[e].pc = "idle" /\ execs'[e].pc # "idle")
          => execs'[e].probing # Engines[1] ]_vars

\* A request made through the hook's translate whose promise has not settled.
HookPending(e) ==
    /\ execs[e].origin = "hook"
    /\ execs[e].pc # "idle"
    /\ ~execs[e].closed

\* A request made through the hook for this key has failed and left the hook.
FailedBefore(key) ==
    \E e \in Slots :
        /\ execs[e].origin = "hook"
        /\ execs[e].closed
        /\ execs[e].outcome.kind = "error"
        /\ getCacheKey(execs[e].req) = key

\* C36: the hook's table of pending requests holds a key exactly while a
\* request for that key is pending, so it is empty when none is; and a
\* translate for a key whose request has failed, made when none is pending
\* for it, starts a new call of the orchestrator.
C36_TableHoldsPendingKeys ==
    /\ [](DOMAIN requestQueue
            = {getCacheKey(execs[e].req) : e \in {f \in Slots : HookPending(f)}})
    /\ [][ \A r \in Requests :
             (/\ HookTranslate(r)
              /\ FailedBefore(getCacheKey(r))
              /\ \A e \in Slots : HookPending(e) => execs[e].req # r)
             => \E e \in Slots :
                    /\ ~HookPending(e)
                    /\ execs'[e] = Started(r, "hook")
                    /\ getCacheKey(r) \in DOMAIN requestQueue' ]_vars

\* C36 witness: a request has failed and left the hook, the table is empty
\* again, and a second request for its key has since been started and has
\* fared as the first.
C36_Witness ==
    \E e, f \in Slots :
        /\ e # f
        /\ FailedBefore(getCacheKey(execs[e].req))
        /\ execs[e].closed /\ execs[e].outcome.kind = "error"
        /\ execs[f].origin = "hook"
        /\ execs[f].closed /\ execs[f].outcome.kind = "error"
        /\ execs[f].req = execs[e].req
        /\ requestQueue = <<>>

\* C37: isTranslating is true in every state in which a request made through
\* the hook, single or batch, is still pending, and false once all have
\* settled.
C37_TranslatingWhilePending ==
    isTranslating
        = ((\E e \in Slots : HookPending(e)) \/ batch.status = "pending")

----------------------------------------------------------------------------
(* A further claim about the subtitle exports. *)

\* C38: in every subtitle export each cue's end time is not earlier than its
\* start time, also for entries less than 1 second apart or out of
\* timestamp order.
C38_CueEndsNotBeforeStart ==
    lastQuery.op \in {"exportToSRT", "exportToVTT"}
    => \A i \in 1..Len(lastQuery.out) :
          StampMs(lastQuery.out[i].endTime) >= StampMs(lastQuery.out[i].startTime)

====
